---- MODULE Spec2Model ----
(***************************************************************************)
(* Document parse result normalizer and status model of the contract /     *)
(* invoice UI: the detail dialog ParsedDataDialog (status badge, summary   *)
(* rows, message, raw text, raw JSON), its field formatters, and the parse *)
(* status badges of the contract and invoice list rows.                    *)
(*                                                                         *)
(* JavaScript values are tagged records.  A string is the sequence of its  *)
(* characters; a character outside ASCII is written by its code point     *)
(* ("U+00A5" is the yen sign).  A number is its floor w and the rest f in   *)
(* ten-thousandths, so 1234.5 is w = 1234, f = 5000 and -0.5 is w = -1,    *)
(* f = 5000: the model's numbers are the decimals with at most four        *)
(* fractional digits.                                                      *)
(***************************************************************************)
EXTENDS Integers, Sequences, FiniteSets, TLC

VARIABLES
  tz,            \* viewer's time zone: local time minus UTC, in minutes
  engine,        \* JavaScript engine: decides what Date.parse does outside the ISO format
  kind,          \* ParsedDataDialog prop kind / which list the row belongs to
  parsedData,    \* ParsedDataDialog prop parsedData / the row entity's parsed_data
  file_path,     \* the row entity's file_path
  phase,         \* "idle", "rendered" or "crashed" (an exception left the render)
  badge,         \* ParsedDataDialog: const badge
  summaryRows,   \* ParsedDataDialog: const summaryRows
  parseMessage,  \* ParsedDataDialog: const parseMessage
  rawText,       \* ParsedDataDialog: text of the raw tab
  jsonText,      \* ParsedDataDialog: text of the json tab
  rowBadge,      \* list cell "parse_status": const badge
  call,          \* last formatter call: [fn, arg, result]
  component,     \* the mounted add dialog or list dialog whose handlers run, or "none"
  isOpen,        \* add dialog: useState isOpen
  file,          \* AddContract contractFile / AddInvoice invoiceFile
  fileInputKey,  \* AddContract / AddInvoice: useState fileInputKey
  form,          \* add dialog: the values the form holds
  contractForInvoices,  \* ProjectDetailDialog: useState contractForInvoices
  contractForParse,     \* ProjectDetailDialog: useState contractForParse
  invoiceForParse,      \* InvoiceDialog: useState invoiceForParse
  mutations,     \* the mutations started and not settled: requests in flight
  mutationId,    \* number of mutations started so far
  toast,         \* the toast shown last
  stale,         \* query keys invalidated and not refetched yet
  lastConfirm    \* the last window.confirm prompt of onDelete and its answer

viewVars == <<tz, engine, kind, parsedData, file_path, phase, badge, summaryRows,
              parseMessage, rawText, jsonText, rowBadge, call>>

crudVars == <<component, isOpen, file, fileInputKey, form, contractForInvoices,
              contractForParse, invoiceForParse, mutations, mutationId, toast,
              stale, lastConfirm>>

vars == <<tz, engine, kind, parsedData, file_path, phase, badge, summaryRows,
          parseMessage, rawText, jsonText, rowBadge, call,
          component, isOpen, file, fileInputKey, form, contractForInvoices,
          contractForParse, invoiceForParse, mutations, mutationId, toast,
          stale, lastConfirm>>

(***************************************************************************)
(* JavaScript values                                                       *)
(***************************************************************************)
Undefined == [t |-> "undefined"]
Null == [t |-> "null"]
Bool(b) == [t |-> "boolean", b |-> b]
Num(w, f) == [t |-> "number", w |-> w, f |-> f]
Str(s) == [t |-> "string", s |-> s]
Arr(a) == [t |-> "array", a |-> a]
Obj(o) == [t |-> "object", o |-> o]      \* o: sequence of <<key, value>>, keys distinct

\* A property value that is the payload object itself (payload.key ===
\* payload): the reference cycle an object built in memory can hold and a
\* JSON text cannot.
Cycle == [t |-> "cycle"]

Whole(i) == Num(i, 0)

\* The ten-thousandths in one.
Unit == 10 * 10 * 10 * 10

\* Sign and magnitude of a number: whole part and ten-thousandths.
isNegative(v) == v.w < 0
magWhole(v) == IF v.w >= 0 THEN v.w ELSE IF v.f = 0 THEN -v.w ELSE -v.w - 1
magFrac(v) == IF v.w >= 0 \/ v.f = 0 THEN v.f ELSE Unit - v.f

\* The exception a JavaScript operation raises instead of returning.
TypeError == [t |-> "TypeError"]

\* typeof value
typeof(v) ==
  CASE v.t = "undefined" -> "undefined"
    [] v.t = "boolean" -> "boolean"
    [] v.t = "number" -> "number"
    [] v.t = "string" -> "string"
    [] OTHER -> "object"

\* Array.isArray(value)
isArray(v) == v.t = "array"

\* ToBoolean(value): what !value, value && ..., value || ... test
truthy(v) ==
  CASE v.t = "undefined" -> FALSE
    [] v.t = "null" -> FALSE
    [] v.t = "boolean" -> v.b
    [] v.t = "number" -> v.w # 0 \/ v.f # 0
    [] v.t = "string" -> v.s # <<>>
    [] OTHER -> TRUE

\* Own keys of an object, and property access object.key (undefined when missing).
keysOf(v) == {v.o[i][1] : i \in 1..Len(v.o)}
Get(v, key) ==
  IF v.t = "object" /\ key \in keysOf(v)
    THEN LET i == CHOOSE j \in 1..Len(v.o) : v.o[j][1] = key IN v.o[i][2]
    ELSE Undefined

(***************************************************************************)
(* Strings and numbers                                                     *)
(***************************************************************************)
Digits == <<"0", "1", "2", "3", "4", "5", "6", "7", "8", "9">>
isDigit(c) == \E i \in 1..10 : Digits[i] = c
digitValue(c) == (CHOOSE i \in 1..10 : Digits[i] = c) - 1

RECURSIVE natToString(_)
natToString(n) ==
  IF n < 10 THEN <<Digits[n + 1]>>
  ELSE natToString(n \div 10) \o <<Digits[(n % 10) + 1]>>

RECURSIVE parseNat(_)
parseNat(s) ==
  IF s = <<>> THEN 0
  ELSE 10 * parseNat(SubSeq(s, 1, Len(s) - 1)) + digitValue(s[Len(s)])

allDigits(s) == \A i \in 1..Len(s) : isDigit(s[i])

\* digits of f, left-padded with zeros to width w
RECURSIVE padded(_, _)
padded(f, w) ==
  IF w = 0 THEN <<>> ELSE padded(f \div 10, w - 1) \o <<Digits[(f % 10) + 1]>>

RECURSIVE stripZeros(_, _)
\* drop trailing zeros of a fraction, keeping at least min digits
stripZeros(s, min) ==
  IF Len(s) > min /\ s[Len(s)] = "0"
    THEN stripZeros(SubSeq(s, 1, Len(s) - 1), min)
    ELSE s

\* Number::toString(v) for the model's numbers (no exponent form arises).
numberToString(v) ==
  LET frac == stripZeros(padded(magFrac(v), 4), 0)
  IN (IF isNegative(v) THEN <<"-">> ELSE <<>>)
       \o natToString(magWhole(v))
       \o (IF frac = <<>> THEN <<>> ELSE <<".">> \o frac)

RECURSIVE grouped(_)
\* integer digits with a "," before every group of three
grouped(n) ==
  IF n < 1000 THEN natToString(n)
  ELSE grouped(n \div 1000) \o <<",">> \o padded(n % 1000, 3)

(***************************************************************************)
(* ToString, Array.prototype.join, JSON.stringify                          *)
(***************************************************************************)
Chars_undefined == <<"u", "n", "d", "e", "f", "i", "n", "e", "d">>
Chars_null == <<"n", "u", "l", "l">>
Chars_true == <<"t", "r", "u", "e">>
Chars_false == <<"f", "a", "l", "s", "e">>
Chars_objectObject ==
  <<"[", "o", "b", "j", "e", "c", "t", " ", "O", "b", "j", "e", "c", "t", "]">>
Key_toString == <<"t", "o", "S", "t", "r", "i", "n", "g">>

\* Concatenation of two completions: an exception on either side propagates.
cat(x, y) == IF x = TypeError \/ y = TypeError THEN TypeError ELSE Str(x.s \o y.s)

RECURSIVE toStringJS(_)
RECURSIVE join(_, _)

\* ToString(value), as String(value) and join apply it: the string, or the
\* TypeError thrown.  An object goes through OrdinaryToPrimitive: an own
\* "toString" property parsed from JSON is not callable and
\* Object.prototype.valueOf returns the object itself, so the conversion
\* throws; otherwise Object.prototype.toString answers.
toStringJS(v) ==
  CASE v.t = "undefined" -> Str(Chars_undefined)
    [] v.t = "null" -> Str(Chars_null)
    [] v.t = "boolean" -> Str(IF v.b THEN Chars_true ELSE Chars_false)
    [] v.t = "number" -> Str(numberToString(v))
    [] v.t = "string" -> v
    [] v.t = "array" -> join(v.a, <<",">>)
    [] v.t = "object" ->
         IF Key_toString \in keysOf(v) THEN TypeError ELSE Str(Chars_objectObject)
    [] v.t = "cycle" -> Str(Chars_objectObject)    \* no payload key is "toString"

\* Array.prototype.join(sep): undefined and null elements give the empty
\* string, every other element its ToString.
join(a, sep) ==
  IF a = <<>> THEN Str(<<>>)
  ELSE LET e == a[Len(a)]
           last == IF e.t \in {"undefined", "null"} THEN Str(<<>>) ELSE toStringJS(e)
       IN IF Len(a) = 1 THEN last
          ELSE cat(cat(join(SubSeq(a, 1, Len(a) - 1), sep), Str(sep)), last)

RECURSIVE quoteChars(_)
quoteChars(s) ==
  IF s = <<>> THEN <<>>
  ELSE (IF s[1] \in {"\"", "\\"} THEN <<"\\", s[1]>> ELSE <<s[1]>>)
         \o quoteChars(Tail(s))

\* QuoteJSONString: the model's strings hold no control characters.
quote(s) == <<"\"">> \o quoteChars(s) \o <<"\"">>

RECURSIVE hasCycle(_)
\* SerializeJSONObject / SerializeJSONArray find the value on their stack:
\* JSON.stringify throws a TypeError.
hasCycle(v) ==
  CASE v.t = "cycle" -> TRUE
    [] v.t = "array" -> \E i \in 1..Len(v.a) : hasCycle(v.a[i])
    [] v.t = "object" -> \E i \in 1..Len(v.o) : hasCycle(v.o[i][2])
    [] OTHER -> FALSE

RECURSIVE stringify(_)
RECURSIVE stringifyElements(_)
RECURSIVE stringifyMembers(_)

\* JSON.stringify(value) without indentation, for a JSON value.
stringify(v) ==
  CASE v.t = "null" -> Chars_null
    [] v.t = "boolean" -> IF v.b THEN Chars_true ELSE Chars_false
    [] v.t = "number" -> numberToString(v)
    [] v.t = "string" -> quote(v.s)
    [] v.t = "array" -> <<"[">> \o stringifyElements(v.a) \o <<"]">>
    [] v.t = "object" -> <<"{">> \o stringifyMembers(v.o) \o <<"}">>

stringifyElements(a) ==
  IF a = <<>> THEN <<>>
  ELSE IF Len(a) = 1 THEN stringify(a[1])
  ELSE stringify(a[1]) \o <<",">> \o stringifyElements(Tail(a))

stringifyMembers(o) ==
  IF o = <<>> THEN <<>>
  ELSE LET m == quote(o[1][1]) \o <<":">> \o stringify(o[1][2])
       IN IF Len(o) = 1 THEN m ELSE m \o <<",">> \o stringifyMembers(Tail(o))

(***************************************************************************)
(* Dates: new Date(string), Date.prototype.toLocaleDateString("zh-CN")     *)
(***************************************************************************)
\* A Date object: its time value in minutes since the epoch (the code reads
\* no finer part), or the invalid date whose getTime() is NaN.
DateValue(time) == [valid |-> TRUE, time |-> time]
InvalidDate == [valid |-> FALSE]

isLeapYear(y) == (y % 4 = 0 /\ y % 100 # 0) \/ y % 400 = 0
daysInMonth(y, m) ==
  IF m = 2 THEN (IF isLeapYear(y) THEN 28 + 1 ELSE 28)
  ELSE IF m \in {4, 6, 9, 11} THEN 30 ELSE 31

\* MakeDay(year, month, date): days since the epoch of a civil date.
daysFromCivil(y, m, d) ==
  LET yy == IF m <= 2 THEN y - 1 ELSE y
      era == yy \div 400
      yoe == yy - era * 400
      mp == IF m > 2 THEN m - 3 ELSE m + 9
      doy == (153 * mp + 2) \div 5 + d - 1
      doe == yoe * 365 + yoe \div 4 - yoe \div 100 + doy
  IN era * 146097 + doe - 719468

\* YearFromTime, MonthFromTime, DateFromTime of a day number.
civilFromDays(days) ==
  LET z == days + 719468
      era == z \div 146097
      doe == z - era * 146097
      yoe == (doe - doe \div 1460 + doe \div 36524 - doe \div 146096) \div 365
      doy == doe - (365 * yoe + yoe \div 4 - yoe \div 100)
      mp == (5 * doy + 2) \div 153
      d == doy - (153 * mp + 2) \div 5 + 1
      m == IF mp < 10 THEN mp + 3 ELSE mp - 9
  IN [year |-> (IF m <= 2 THEN 1 ELSE 0) + yoe + era * 400, month |-> m, day |-> d]

\* The day number of year-month-day as a date string names it, or -1 when the
\* engine rejects the fields.  A day past the end of its month (February 30)
\* is rejected by SpiderMonkey and carried into the next month by V8.
dayNumber(y, m, d) ==
  IF m \notin 1..12 \/ d \notin 1..31 THEN -1
  ELSE IF d <= daysInMonth(y, m) \/ engine = "v8"
    THEN daysFromCivil(y, m, 1) + d - 1
    ELSE -1

\* HH:mm at positions i..i+4 of s, in minutes, or -1.
timeOfDay(s, i) ==
  IF isDigit(s[i]) /\ isDigit(s[i + 1]) /\ s[i + 2] = ":"
       /\ isDigit(s[i + 3]) /\ isDigit(s[i + 4])
       /\ parseNat(SubSeq(s, i, i + 1)) < 24
       /\ parseNat(SubSeq(s, i + 3, i + 4)) < 60
    THEN 60 * parseNat(SubSeq(s, i, i + 1)) + parseNat(SubSeq(s, i + 3, i + 4))
    ELSE -1

\* sep-separated YYYY MM DD at the head of s.
isYmd(s, sep) ==
  /\ Len(s) >= 10
  /\ allDigits(SubSeq(s, 1, 4)) /\ s[5] = sep
  /\ allDigits(SubSeq(s, 6, 7)) /\ s[8] = sep
  /\ allDigits(SubSeq(s, 9, 10))
ymdDay(s) ==
  dayNumber(parseNat(SubSeq(s, 1, 4)), parseNat(SubSeq(s, 6, 7)),
            parseNat(SubSeq(s, 9, 10)))

\* new Date(value) for a string value.  The ECMAScript date time string
\* format: YYYY, YYYY-MM and YYYY-MM-DD are UTC; YYYY-MM-DDTHH:mm[:ss] is
\* local time, and UTC with a trailing Z.  Outside that format the engines
\* fall back to their own parser, which reads YYYY/MM/DD as local time and
\* rejects a string without a digit.  (Forms with fractional seconds or a
\* numeric offset, and other fallback forms, are not among the model's
\* strings.)
newDate(s) ==
  LET n == Len(s)
      hasSeconds == n >= 19 /\ s[17] = ":" /\ allDigits(SubSeq(s, 18, 19))
                      /\ parseNat(SubSeq(s, 18, 19)) < 60
      timeEnd == IF hasSeconds THEN 19 ELSE 16
  IN
  IF n = 4 /\ allDigits(s)
    THEN DateValue(1440 * daysFromCivil(parseNat(s), 1, 1))
  ELSE IF n = 7 /\ allDigits(SubSeq(s, 1, 4)) /\ s[5] = "-" /\ allDigits(SubSeq(s, 6, 7))
    THEN (IF dayNumber(parseNat(SubSeq(s, 1, 4)), parseNat(SubSeq(s, 6, 7)), 1) = -1
            THEN InvalidDate
            ELSE DateValue(1440 * dayNumber(parseNat(SubSeq(s, 1, 4)),
                                            parseNat(SubSeq(s, 6, 7)), 1)))
  ELSE IF n = 10 /\ isYmd(s, "-")
    THEN (IF ymdDay(s) = -1 THEN InvalidDate ELSE DateValue(1440 * ymdDay(s)))
  ELSE IF n = 10 /\ isYmd(s, "/")
    THEN (IF ymdDay(s) = -1 THEN InvalidDate ELSE DateValue(1440 * ymdDay(s) - tz))
  ELSE IF n >= 16 /\ isYmd(s, "-") /\ s[11] = "T" /\ timeOfDay(s, 12) # -1
          /\ ymdDay(s) # -1
          /\ (n = timeEnd \/ (n = timeEnd + 1 /\ s[n] = "Z"))
    THEN DateValue(1440 * ymdDay(s) + timeOfDay(s, 12)
                     - (IF s[n] = "Z" THEN 0 ELSE tz))
  ELSE InvalidDate

\* date.toLocaleDateString("zh-CN"): year/month/day of the local calendar
\* day, without padding (CLDR zh-CN short date y/M/d).
toLocaleDateString(date) ==
  LET c == civilFromDays((date.time + tz) \div 1440)
  IN natToString(c.year) \o <<"/">> \o natToString(c.month) \o <<"/">>
       \o natToString(c.day)

\* value.toLocaleString("zh-CN", { minimumFractionDigits: 2 }): decimal
\* style, grouping by three, at least 2 fraction digits and at most
\* max(2, 3) = 3, rounded half away from zero.
toLocaleString(v) ==
  LET thousandths == (magFrac(v) + 5) \div 10
      whole == magWhole(v) + thousandths \div 1000
      frac == stripZeros(padded(thousandths % 1000, 3), 2)
  IN (IF isNegative(v) THEN <<"-">> ELSE <<>>)
       \o grouped(whole) \o <<".">> \o frac

(***************************************************************************)
(* Payload keys and the UI strings of the dialog and the list columns      *)
(***************************************************************************)
Key_parse_status ==
  <<"p", "a", "r", "s", "e", "_", "s", "t", "a", "t", "u", "s">>
Key_parse_message ==
  <<"p", "a", "r", "s", "e", "_", "m", "e", "s", "s", "a", "g", "e">>
Key_raw_text == <<"r", "a", "w", "_", "t", "e", "x", "t">>
Key_party_a == <<"p", "a", "r", "t", "y", "_", "a">>
Key_party_b == <<"p", "a", "r", "t", "y", "_", "b">>
Key_contract_number ==
  <<"c", "o", "n", "t", "r", "a", "c", "t", "_", "n", "u", "m", "b", "e", "r">>
Key_sign_date == <<"s", "i", "g", "n", "_", "d", "a", "t", "e">>
Key_effective_date ==
  <<"e", "f", "f", "e", "c", "t", "i", "v", "e", "_", "d", "a", "t", "e">>
Key_expiry_date == <<"e", "x", "p", "i", "r", "y", "_", "d", "a", "t", "e">>
Key_amount == <<"a", "m", "o", "u", "n", "t">>
Key_stamp_pages == <<"s", "t", "a", "m", "p", "_", "p", "a", "g", "e", "s">>
Key_invoice_number ==
  <<"i", "n", "v", "o", "i", "c", "e", "_", "n", "u", "m", "b", "e", "r">>
Key_invoice_code ==
  <<"i", "n", "v", "o", "i", "c", "e", "_", "c", "o", "d", "e">>
Key_invoice_date ==
  <<"i", "n", "v", "o", "i", "c", "e", "_", "d", "a", "t", "e">>
Key_seller == <<"s", "e", "l", "l", "e", "r">>
Key_buyer == <<"b", "u", "y", "e", "r">>
Key_tax_amount == <<"t", "a", "x", "_", "a", "m", "o", "u", "n", "t">>

Dash == Str(<<"-">>)   \* -
Label_full == Str(<<"U+5DF2", "U+89E3", "U+6790">>)   \* 已解析
Label_partial == Str(<<"U+90E8", "U+5206", "U+89E3", "U+6790">>)   \* 部分解析
Label_failed == Str(<<"U+89E3", "U+6790", "U+5931", "U+8D25">>)   \* 解析失败
Label_unsupported == Str(<<"U+4E0D", "U+652F", "U+6301", "U+89E3", "U+6790">>)   \* 不支持解析
Label_unparsed == Str(<<"U+672A", "U+89E3", "U+6790">>)   \* 未解析
Label_pending == Str(<<"U+5F85", "U+89E3", "U+6790">>)   \* 待解析
Label_notUploaded == Str(<<"U+672A", "U+4E0A", "U+4F20">>)   \* 未上传
Label_party_a == Str(<<"U+7532", "U+65B9">>)   \* 甲方
Label_party_b == Str(<<"U+4E59", "U+65B9">>)   \* 乙方
Label_contract_number == Str(<<"U+5408", "U+540C", "U+7F16", "U+53F7">>)   \* 合同编号
Label_sign_date == Str(<<"U+7B7E", "U+7EA6", "U+65E5", "U+671F">>)   \* 签约日期
Label_effective_date == Str(<<"U+751F", "U+6548", "U+65E5", "U+671F">>)   \* 生效日期
Label_expiry_date == Str(<<"U+5230", "U+671F", "U+65E5", "U+671F">>)   \* 到期日期
Label_contract_amount == Str(<<"U+5408", "U+540C", "U+91D1", "U+989D">>)   \* 合同金额
Label_stamp_pages == Str(<<"U+76D6", "U+7AE0", "U+9875">>)   \* 盖章页
Label_invoice_number == Str(<<"U+53D1", "U+7968", "U+53F7", "U+7801">>)   \* 发票号码
Label_invoice_code == Str(<<"U+53D1", "U+7968", "U+4EE3", "U+7801">>)   \* 发票代码
Label_invoice_date == Str(<<"U+5F00", "U+7968", "U+65E5", "U+671F">>)   \* 开票日期
Label_seller == Str(<<"U+9500", "U+552E", "U+65B9">>)   \* 销售方
Label_buyer == Str(<<"U+8D2D", "U+4E70", "U+65B9">>)   \* 购买方
Label_invoice_amount == Str(<<"U+53D1", "U+7968", "U+91D1", "U+989D">>)   \* 发票金额
Label_tax_amount == Str(<<"U+7A0E", "U+989D">>)   \* 税额
Text_noMessage ==
  Str(<<"U+6682", "U+65E0", "U+89E3", "U+6790", "U+4FE1", "U+606F">>)   \* 暂无解析信息
Text_noRawText ==
  Str(<<"U+6682", "U+65E0", "U+539F", "U+59CB", "U+6587", "U+672C">>)   \* 暂无原始文本
Text_noJson ==
  Str(<<"U+6682", "U+65E0", "U+539F", "U+59CB", "J", "S", "O", "N">>)   \* 暂无原始JSON

(***************************************************************************)
(* JSON.stringify(value, null, 2)                                          *)
(***************************************************************************)
RECURSIVE stringifyPretty(_, _)
RECURSIVE prettyElements(_, _)
RECURSIVE prettyMembers(_, _)

\* SerializeJSONProperty with gap "  "; indent is the current indentation.
stringifyPretty(v, indent) ==
  LET inner == indent \o <<" ", " ">> IN
  CASE v.t = "array" ->
         IF v.a = <<>> THEN <<"[", "]">>
         ELSE <<"[", "\n">> \o prettyElements(v.a, inner) \o <<"\n">> \o indent \o <<"]">>
    [] v.t = "object" ->
         IF v.o = <<>> THEN <<"{", "}">>
         ELSE <<"{", "\n">> \o prettyMembers(v.o, inner) \o <<"\n">> \o indent \o <<"}">>
    [] OTHER -> stringify(v)

prettyElements(a, indent) ==
  LET e == indent \o stringifyPretty(a[1], indent)
  IN IF Len(a) = 1 THEN e ELSE e \o <<",", "\n">> \o prettyElements(Tail(a), indent)

prettyMembers(o, indent) ==
  LET m == indent \o quote(o[1][1]) \o <<":", " ">> \o stringifyPretty(o[1][2], indent)
  IN IF Len(o) = 1 THEN m ELSE m \o <<",", "\n">> \o prettyMembers(Tail(o), indent)

(***************************************************************************)
(* ParsedDataDialog: status badge, formatters, summary rows, texts         *)
(***************************************************************************)
\* const status = parsedData && typeof parsedData.parse_status === "string"
\*   ? parsedData.parse_status : null
statusOf(data) ==
  IF truthy(data) /\ typeof(Get(data, Key_parse_status)) = "string"
    THEN Get(data, Key_parse_status)
    ELSE Null

\* Mutant: the "partial" case is missing and falls to the default.
getParseStatusBadge_noPartial(data) ==
  LET status == statusOf(data) IN
  CASE status = Str(<<"f", "u", "l", "l">>) ->
         [label |-> Label_full, variant |-> "secondary"]
    [] status = Str(<<"f", "a", "i", "l", "e", "d">>) ->
         [label |-> Label_failed, variant |-> "destructive"]
    [] status = Str(<<"u", "n", "s", "u", "p", "p", "o", "r", "t", "e", "d">>) ->
         [label |-> Label_unsupported, variant |-> "outline"]
    [] OTHER -> [label |-> Label_unparsed, variant |-> "outline"]

getParseStatusBadge(data) ==
  LET status == statusOf(data) IN
  CASE status = Str(<<"f", "u", "l", "l">>) ->
         [label |-> Label_full, variant |-> "secondary"]
    [] status = Str(<<"p", "a", "r", "t", "i", "a", "l">>) ->
         [label |-> Label_partial, variant |-> "secondary"]
    [] status = Str(<<"f", "a", "i", "l", "e", "d">>) ->
         [label |-> Label_failed, variant |-> "destructive"]
    [] status = Str(<<"u", "n", "s", "u", "p", "p", "o", "r", "t", "e", "d">>) ->
         [label |-> Label_unsupported, variant |-> "outline"]
    [] OTHER -> [label |-> Label_unparsed, variant |-> "outline"]

\* Mutant: a string that does not parse is replaced by the placeholder.
formatDate_dashOnInvalid(value) ==
  IF typeof(value) # "string" \/ ~truthy(value) THEN Dash
  ELSE LET date == newDate(value.s)
       IN IF ~date.valid THEN Dash ELSE Str(toLocaleDateString(date))

\* The date branch: the string itself for an invalid date, the local day otherwise.
shownDate(value, date) ==
  IF ~date.valid THEN value ELSE Str(toLocaleDateString(date))

formatDate(value) ==
  IF typeof(value) # "string" \/ ~truthy(value) THEN Dash
  ELSE shownDate(value, newDate(value.s))

formatMoney(value) ==
  IF typeof(value) # "number" THEN Dash
  ELSE Str(<<"U+00A5">> \o toLocaleString(value))

formatText(value) ==
  IF value = Null \/ value = Undefined \/ value = Str(<<>>) THEN Dash
  ELSE IF isArray(value) THEN join(value.a, <<",", " ">>)
  ELSE IF typeof(value) = "object"
    THEN (IF hasCycle(value) THEN TypeError ELSE Str(stringify(value)))
  ELSE toStringJS(value)

\* Mutant: the page indices are kept zero-based.
RECURSIVE pagesPlusOne_zeroBased(_)
pagesPlusOne_zeroBased(a) ==
  IF a = <<>> THEN <<>>
  ELSE (IF typeof(a[1]) = "number" THEN <<a[1]>> ELSE <<>>)
         \o pagesPlusOne_zeroBased(Tail(a))

\* Mutant: the pages are taken up to the first element that is not a number
\* (a loop that breaks instead of a filter).
RECURSIVE pagesPlusOne_untilNonNumber(_)
pagesPlusOne_untilNonNumber(a) ==
  IF a = <<>> \/ typeof(a[1]) # "number" THEN <<>>
  ELSE <<Num(a[1].w + 1, a[1].f)>> \o pagesPlusOne_untilNonNumber(Tail(a))

RECURSIVE pagesPlusOne(_)
\* .filter((value) => typeof value === "number").map((value) => value + 1)
pagesPlusOne(a) ==
  IF a = <<>> THEN <<>>
  ELSE (IF typeof(a[1]) = "number" THEN <<Num(a[1].w + 1, a[1].f)>> ELSE <<>>)
         \o pagesPlusOne(Tail(a))

\* const stampPages = Array.isArray(parsedData.stamp_pages) ? ... : "-"
stampPagesOf(value) ==
  IF isArray(value) THEN join(pagesPlusOne(value.a), <<",", " ">>) ELSE Dash

\* the row value  stampPages || "-"
stampPagesValue(value) ==
  IF truthy(stampPagesOf(value)) THEN stampPagesOf(value) ELSE Dash

Row(label, value) == [label |-> label, value |-> value]

\* The array literal returned for kind "contract".
contractRows_swappedParties(data) ==
  << Row(Label_party_a, formatText(Get(data, Key_party_b))),
     Row(Label_party_b, formatText(Get(data, Key_party_a))),
     Row(Label_contract_number, formatText(Get(data, Key_contract_number))),
     Row(Label_sign_date, formatDate(Get(data, Key_sign_date))),
     Row(Label_effective_date, formatDate(Get(data, Key_effective_date))),
     Row(Label_expiry_date, formatDate(Get(data, Key_expiry_date))),
     Row(Label_contract_amount, formatMoney(Get(data, Key_amount))),
     Row(Label_stamp_pages, stampPagesValue(Get(data, Key_stamp_pages))) >>

contractRows(data) ==
  << Row(Label_party_a, formatText(Get(data, Key_party_a))),
     Row(Label_party_b, formatText(Get(data, Key_party_b))),
     Row(Label_contract_number, formatText(Get(data, Key_contract_number))),
     Row(Label_sign_date, formatDate(Get(data, Key_sign_date))),
     Row(Label_effective_date, formatDate(Get(data, Key_effective_date))),
     Row(Label_expiry_date, formatDate(Get(data, Key_expiry_date))),
     Row(Label_contract_amount, formatMoney(Get(data, Key_amount))),
     Row(Label_stamp_pages, stampPagesValue(Get(data, Key_stamp_pages))) >>

\* Mutant: the tax row carries the label of the amount row.
invoiceRows_amountTwice(data) ==
  << Row(Label_invoice_number, formatText(Get(data, Key_invoice_number))),
     Row(Label_invoice_code, formatText(Get(data, Key_invoice_code))),
     Row(Label_invoice_date, formatDate(Get(data, Key_invoice_date))),
     Row(Label_seller, formatText(Get(data, Key_seller))),
     Row(Label_buyer, formatText(Get(data, Key_buyer))),
     Row(Label_invoice_amount, formatMoney(Get(data, Key_amount))),
     Row(Label_invoice_amount, formatMoney(Get(data, Key_tax_amount))) >>

\* Mutant: the tax row reads the amount.
invoiceRows_taxFromAmount(data) ==
  << Row(Label_invoice_number, formatText(Get(data, Key_invoice_number))),
     Row(Label_invoice_code, formatText(Get(data, Key_invoice_code))),
     Row(Label_invoice_date, formatDate(Get(data, Key_invoice_date))),
     Row(Label_seller, formatText(Get(data, Key_seller))),
     Row(Label_buyer, formatText(Get(data, Key_buyer))),
     Row(Label_invoice_amount, formatMoney(Get(data, Key_amount))),
     Row(Label_tax_amount, formatMoney(Get(data, Key_amount))) >>

\* The array literal returned for kind "invoice".
invoiceRows(data) ==
  << Row(Label_invoice_number, formatText(Get(data, Key_invoice_number))),
     Row(Label_invoice_code, formatText(Get(data, Key_invoice_code))),
     Row(Label_invoice_date, formatDate(Get(data, Key_invoice_date))),
     Row(Label_seller, formatText(Get(data, Key_seller))),
     Row(Label_buyer, formatText(Get(data, Key_buyer))),
     Row(Label_invoice_amount, formatMoney(Get(data, Key_amount))),
     Row(Label_tax_amount, formatMoney(Get(data, Key_tax_amount))) >>

\* Mutant: a payload whose parse failed gets no rows.
getSummaryRows_failedEmpty(k, data) ==
  IF ~truthy(data) \/ Get(data, Key_parse_status) = Str(<<"f", "a", "i", "l", "e", "d">>)
    THEN Arr(<<>>)
  ELSE LET rows == IF k = "contract" THEN contractRows(data) ELSE invoiceRows(data)
       IN IF \E i \in 1..Len(rows) : rows[i].value = TypeError
            THEN TypeError
            ELSE Arr(rows)

\* Mutant: a row whose field gave the placeholder is left out.
getSummaryRows_dropsMissing(k, data) ==
  IF ~truthy(data) THEN Arr(<<>>)
  ELSE LET rows == IF k = "contract" THEN contractRows(data) ELSE invoiceRows(data)
       IN IF \E i \in 1..Len(rows) : rows[i].value = TypeError
            THEN TypeError
            ELSE Arr(SelectSeq(rows, LAMBDA r : r.value # Str(<<"-">>)))

\* The rows returned, as an array; TypeError when a formatter throws.
\* The array literal as getSummaryRows returns it: nothing is returned when
\* a formatter in it threw.
returned(rows) ==
  IF \E i \in 1..Len(rows) : rows[i].value = TypeError THEN TypeError ELSE Arr(rows)

getSummaryRows(k, data) ==
  IF ~truthy(data) THEN Arr(<<>>)
  ELSE returned(IF k = "contract" THEN contractRows(data) ELSE invoiceRows(data))

\* Mutant: an empty parse_message is replaced by the placeholder.
getParseMessage_emptyAsMissing(data) ==
  IF ~truthy(data) \/ ~truthy(Get(data, Key_parse_message))
       \/ typeof(Get(data, Key_parse_message)) # "string"
    THEN Text_noMessage
    ELSE Get(data, Key_parse_message)

getParseMessage(data) ==
  IF ~truthy(data) \/ typeof(Get(data, Key_parse_message)) # "string"
    THEN Text_noMessage
    ELSE Get(data, Key_parse_message)

\* Mutant: raw_text is returned whatever its type.
getRawText_anyType(data) ==
  IF ~truthy(data) \/ Get(data, Key_raw_text) = Undefined
    THEN Str(<<>>)
    ELSE Get(data, Key_raw_text)

getRawText(data) ==
  IF ~truthy(data) \/ typeof(Get(data, Key_raw_text)) # "string"
    THEN Str(<<>>)
    ELSE Get(data, Key_raw_text)

\* Mutant: the serialization is not indented.
getJsonText_compact(data) ==
  IF ~truthy(data) THEN Str(<<>>)
  ELSE IF hasCycle(data) THEN TypeError
  ELSE Str(stringify(data))

getJsonText(data) ==
  IF ~truthy(data) THEN Str(<<>>)
  ELSE IF hasCycle(data) THEN TypeError
  ELSE Str(stringifyPretty(data, <<>>))

(***************************************************************************)
(* List columns: the parse status badge of a contract row, an invoice row  *)
(***************************************************************************)
\* Mutant: the contract list does not know the status "unsupported".
getParseStatusBadge_contract_noUnsupported(contract) ==
  IF ~truthy(contract.file_path) THEN [label |-> Label_notUploaded, variant |-> "outline"]
  ELSE LET status == statusOf(contract.parsed_data) IN
  CASE status = Str(<<"f", "u", "l", "l">>) ->
         [label |-> Label_full, variant |-> "secondary"]
    [] status = Str(<<"p", "a", "r", "t", "i", "a", "l">>) ->
         [label |-> Label_partial, variant |-> "secondary"]
    [] status = Str(<<"f", "a", "i", "l", "e", "d">>) ->
         [label |-> Label_failed, variant |-> "destructive"]
    [] OTHER -> [label |-> Label_pending, variant |-> "outline"]

\* Mutant: the status is read before the file reference.
getParseStatusBadge_contract_statusFirst(contract) ==
  LET status == statusOf(contract.parsed_data) IN
  CASE status = Str(<<"f", "u", "l", "l">>) ->
         [label |-> Label_full, variant |-> "secondary"]
    [] status = Str(<<"p", "a", "r", "t", "i", "a", "l">>) ->
         [label |-> Label_partial, variant |-> "secondary"]
    [] status = Str(<<"f", "a", "i", "l", "e", "d">>) ->
         [label |-> Label_failed, variant |-> "destructive"]
    [] status = Str(<<"u", "n", "s", "u", "p", "p", "o", "r", "t", "e", "d">>) ->
         [label |-> Label_unsupported, variant |-> "outline"]
    [] OTHER ->
         IF ~truthy(contract.file_path)
           THEN [label |-> Label_notUploaded, variant |-> "outline"]
           ELSE [label |-> Label_pending, variant |-> "outline"]

\* contract-columns.tsx getParseStatusBadge(contract)
getParseStatusBadge_contract(contract) ==
  IF ~truthy(contract.file_path) THEN [label |-> Label_notUploaded, variant |-> "outline"]
  ELSE LET status == statusOf(contract.parsed_data) IN
  CASE status = Str(<<"f", "u", "l", "l">>) ->
         [label |-> Label_full, variant |-> "secondary"]
    [] status = Str(<<"p", "a", "r", "t", "i", "a", "l">>) ->
         [label |-> Label_partial, variant |-> "secondary"]
    [] status = Str(<<"f", "a", "i", "l", "e", "d">>) ->
         [label |-> Label_failed, variant |-> "destructive"]
    [] status = Str(<<"u", "n", "s", "u", "p", "p", "o", "r", "t", "e", "d">>) ->
         [label |-> Label_unsupported, variant |-> "outline"]
    [] OTHER -> [label |-> Label_pending, variant |-> "outline"]

\* Mutant: a failed parse is shown in the neutral variant.
getParseStatusBadge_invoice_failedOutline(invoice) ==
  IF ~truthy(invoice.file_path) THEN [label |-> Label_notUploaded, variant |-> "outline"]
  ELSE LET status == statusOf(invoice.parsed_data) IN
  CASE status = Str(<<"f", "u", "l", "l">>) ->
         [label |-> Label_full, variant |-> "secondary"]
    [] status = Str(<<"p", "a", "r", "t", "i", "a", "l">>) ->
         [label |-> Label_partial, variant |-> "secondary"]
    [] status = Str(<<"f", "a", "i", "l", "e", "d">>) ->
         [label |-> Label_failed, variant |-> "outline"]
    [] status = Str(<<"u", "n", "s", "u", "p", "p", "o", "r", "t", "e", "d">>) ->
         [label |-> Label_unsupported, variant |-> "outline"]
    [] OTHER -> [label |-> Label_pending, variant |-> "outline"]

\* invoice-columns.tsx getParseStatusBadge(invoice)
getParseStatusBadge_invoice(invoice) ==
  IF ~truthy(invoice.file_path) THEN [label |-> Label_notUploaded, variant |-> "outline"]
  ELSE LET status == statusOf(invoice.parsed_data) IN
  CASE status = Str(<<"f", "u", "l", "l">>) ->
         [label |-> Label_full, variant |-> "secondary"]
    [] status = Str(<<"p", "a", "r", "t", "i", "a", "l">>) ->
         [label |-> Label_partial, variant |-> "secondary"]
    [] status = Str(<<"f", "a", "i", "l", "e", "d">>) ->
         [label |-> Label_failed, variant |-> "destructive"]
    [] status = Str(<<"u", "n", "s", "u", "p", "p", "o", "r", "t", "e", "d">>) ->
         [label |-> Label_unsupported, variant |-> "outline"]
    [] OTHER -> [label |-> Label_pending, variant |-> "outline"]

(***************************************************************************)
(* Inputs: the values a payload field, a file path and the environment     *)
(* may take                                                                *)
(***************************************************************************)
MaxKeys == 1       \* keys of a generated payload
MaxArrLen == 3     \* elements of a generated array

Kinds == {"contract", "invoice"}
Engines == {"v8", "spidermonkey"}
TzOffsets == {-480, 0, 480}      \* UTC-8, UTC, UTC+8

Key_extra == <<"e", "x", "t", "r", "a">>
Key_a == <<"a">>
Key_b == <<"b">>

S_empty == Str(<<>>)
S_ACo == Str(<<"A", " ", "C", "o">>)
S_notADate == Str(<<"n", "o", "t", "-", "a", "-", "d", "a", "t", "e">>)
S_isoDate == Str(<<"2", "0", "2", "4", "-", "0", "1", "-", "1", "5">>)
S_feb30 == Str(<<"2", "0", "2", "4", "-", "0", "2", "-", "3", "0">>)
S_month13 == Str(<<"2", "0", "2", "4", "-", "1", "3", "-", "0", "1">>)
S_isoUtc ==
  Str(<<"2", "0", "2", "4", "-", "0", "1", "-", "1", "5", "T", "2", "0", ":", "3", "0", ":", "0", "0", "Z">>)
S_isoLocal ==
  Str(<<"2", "0", "2", "3", "-", "1", "2", "-", "3", "1", "T", "2", "3", ":", "3", "0">>)
S_slashDate == Str(<<"2", "0", "2", "4", "/", "0", "1", "/", "1", "5">>)
S_year == Str(<<"2", "0", "2", "4">>)
S_quoted == Str(<<"s", "a", "y", " ", "\"", "h", "i", "\"">>)
S_full == Str(<<"f", "u", "l", "l">>)
S_partial == Str(<<"p", "a", "r", "t", "i", "a", "l">>)
S_failed == Str(<<"f", "a", "i", "l", "e", "d">>)
S_unsupported ==
  Str(<<"u", "n", "s", "u", "p", "p", "o", "r", "t", "e", "d">>)
S_bogus == Str(<<"b", "o", "g", "u", "s">>)
S_pdf == Str(<<"a", ".", "p", "d", "f">>)

\* 0.5, 0.0625, 1234.5, 1234.567, -1234.5678, 999.9996, 1234567.891
Half == Num(0, 5000)
Sixteenth == Num(0, 625)
N_1234_5 == Num(1234, 5000)
N_1234_567 == Num(1234, 5670)
N_neg == Num(-1235, 4322)
N_carry == Num(999, 9996)
N_million == Num(1234567, 8910)

ObjEmpty == Obj(<<>>)
ObjPlain == Obj(<< <<Key_a, Whole(1)>>, <<Key_b, Arr(<<Bool(TRUE), S_quoted>>)>> >>)
ObjToString == Obj(<< <<Key_toString, Whole(1)>> >>)     \* {"toString": 1}

SampleStrings ==
  {S_empty, S_ACo, S_notADate, S_isoDate, S_feb30, S_month13, S_isoUtc,
   S_isoLocal, S_slashDate, S_year, S_quoted, S_full}
SampleNumbers ==
  {Whole(0), Whole(42), Whole(1000), Half, Sixteenth, N_1234_5, N_1234_567,
   N_neg, N_carry, N_million}
SampleObjects == {ObjEmpty, ObjPlain, ObjToString}

\* Array elements: page indices, text, and values that are neither.
ElemValues ==
  {Null, Whole(0), Whole(2), Whole(5), S_ACo, Bool(FALSE), ObjToString,
   Arr(<<Whole(1), Null>>)}

RECURSIVE seqsOfLen(_, _)
seqsOfLen(S, n) ==
  IF n = 0 THEN {<<>>}
  ELSE {<<x>> \o rest : x \in S, rest \in seqsOfLen(S, n - 1)}

SampleArrays ==
  {Arr(a) : a \in UNION {seqsOfLen(ElemValues, n) : n \in 0..MaxArrLen}}
    \cup {Arr(<<S_empty>>), Arr(<<ObjPlain>>), Arr(<<Half>>), Arr(<<Whole(-1)>>)}

\* Every value a formatter is applied to.
Values ==
  {Undefined, Null, Bool(TRUE), Bool(FALSE)} \cup SampleStrings \cup SampleNumbers
    \cup SampleObjects \cup SampleArrays

\* Values of a payload field.
StatusValues ==
  {S_full, S_partial, S_failed, S_unsupported, S_bogus, Whole(42), Null}
FieldValues ==
  {Null, Bool(FALSE), N_1234_5, N_1234_567, S_empty, S_ACo, S_isoDate,
   S_notADate, Arr(<<Whole(0), Whole(2), Whole(5)>>), Arr(<<>>),
   Arr(<<ObjToString>>), ObjPlain, Cycle}
ValuesFor(key) == IF key = Key_parse_status THEN StatusValues ELSE FieldValues

AllKeys ==
  << Key_parse_status, Key_parse_message, Key_raw_text, Key_party_a, Key_party_b,
     Key_contract_number, Key_sign_date, Key_effective_date, Key_expiry_date,
     Key_amount, Key_stamp_pages, Key_invoice_number, Key_invoice_code,
     Key_invoice_date, Key_seller, Key_buyer, Key_tax_amount, Key_extra >>

RECURSIVE membersFrom(_, _)
\* member lists of n keys, taken in the order of AllKeys from index from on
membersFrom(from, n) ==
  IF n = 0 THEN {<<>>}
  ELSE UNION { { <<<<AllKeys[i], v>>>> \o rest :
                   v \in ValuesFor(AllKeys[i]), rest \in membersFrom(i + 1, n - 1) } :
               i \in from..Len(AllKeys) }

\* Payloads of a complete contract, a complete invoice, and the partial
\* invoice {parse_status: "partial", seller: "A Co", amount: 1000}.
ContractPayload ==
  Obj(<< <<Key_parse_status, S_full>>, <<Key_parse_message, S_ACo>>,
         <<Key_raw_text, S_quoted>>, <<Key_party_a, S_ACo>>, <<Key_party_b, S_bogus>>,
         <<Key_contract_number, S_year>>, <<Key_sign_date, S_isoDate>>,
         <<Key_effective_date, S_isoUtc>>, <<Key_expiry_date, S_notADate>>,
         <<Key_amount, N_1234_5>>,
         <<Key_stamp_pages, Arr(<<Whole(0), Whole(2), Whole(5)>>)>>,
         <<Key_extra, ObjPlain>> >>)
InvoicePayload ==
  Obj(<< <<Key_parse_status, S_failed>>, <<Key_invoice_number, S_year>>,
         <<Key_invoice_code, Whole(42)>>, <<Key_invoice_date, S_isoLocal>>,
         <<Key_seller, S_ACo>>, <<Key_buyer, Arr(<<S_ACo, Null>>)>>,
         <<Key_amount, N_million>>, <<Key_tax_amount, Sixteenth>> >>)
PartialInvoicePayload ==
  Obj(<< <<Key_parse_status, S_partial>>, <<Key_seller, S_ACo>>,
         <<Key_amount, Whole(1000)>> >>)

\* The payload p = {parse_status: "full", raw_text: "A Co"} after p.extra = p.
CyclicPayload ==
  Obj(<< <<Key_parse_status, S_full>>, <<Key_raw_text, S_ACo>>, <<Key_extra, Cycle>> >>)

Payloads ==
  {Undefined, Null, ContractPayload, InvoicePayload, PartialInvoicePayload,
   CyclicPayload}
    \cup {Obj(m) : m \in UNION {membersFrom(1, n) : n \in 0..MaxKeys}}

FilePaths == {Undefined, Null, S_empty, S_pdf}

\* An output not computed yet.
None == [t |-> "none"]

\* No add dialog and no list dialog is mounted: the state of the parse
\* dialog, the list cells and the formatters does not depend on them.
NoCrud ==
  /\ component = "none"
  /\ isOpen = FALSE
  /\ file = Null
  /\ fileInputKey = 0
  /\ form = None
  /\ contractForInvoices = Null
  /\ contractForParse = Null
  /\ invoiceForParse = Null
  /\ mutations = {}
  /\ mutationId = 0
  /\ toast = None
  /\ stale = {}
  /\ lastConfirm = None

(***************************************************************************)
(* The detail dialog                                                       *)
(***************************************************************************)
\* The date strings of the payloads are in the ECMAScript format, which
\* every engine reads alike: the engines are told apart where the formatters
\* are called on their own (InitFmt).
Init ==
  /\ tz \in TzOffsets
  /\ engine = "v8"
  /\ kind \in Kinds
  /\ parsedData \in Payloads
  /\ file_path = None
  /\ phase = "idle"
  /\ badge = None
  /\ summaryRows = None
  /\ parseMessage = None
  /\ rawText = None
  /\ jsonText = None
  /\ rowBadge = None
  /\ call = None
  /\ NoCrud

\* Mutant: the rows are computed once and kept for every later render
\* (useMemo with an empty dependency list).
ParsedDataDialog_memoizedRows(data) ==
  LET rows == getSummaryRows(kind, data) IN
  IF rows = TypeError \/ getJsonText(data) = TypeError
    THEN /\ phase' = "crashed"
         /\ badge' = None
         /\ summaryRows' = None
         /\ parseMessage' = None
         /\ rawText' = None
         /\ jsonText' = None
    ELSE /\ phase' = "rendered"
         /\ badge' = getParseStatusBadge(data)
         /\ summaryRows' = (IF summaryRows # None THEN summaryRows ELSE rows)
         /\ parseMessage' = getParseMessage(data)
         /\ rawText' = (IF truthy(getRawText(data)) THEN getRawText(data) ELSE Text_noRawText)
         /\ jsonText' = (IF truthy(getJsonText(data)) THEN getJsonText(data) ELSE Text_noJson)

\* The outcome of a render whose const summaryRows is rows and whose raw and
\* json tabs evaluate to raw and json: its output, or none when an exception
\* was thrown on the way.
rendered(data, rows, raw, json) ==
  IF rows = TypeError \/ json = TypeError
    THEN /\ phase' = "crashed"
         /\ badge' = None
         /\ summaryRows' = None
         /\ parseMessage' = None
         /\ rawText' = None
         /\ jsonText' = None
    ELSE /\ phase' = "rendered"
         /\ badge' = getParseStatusBadge(data)
         /\ summaryRows' = rows
         /\ parseMessage' = getParseMessage(data)
         /\ rawText' = (IF truthy(raw) THEN raw ELSE Text_noRawText)
         /\ jsonText' = (IF truthy(json) THEN json ELSE Text_noJson)

\* One evaluation of the component function ParsedDataDialog with the prop
\* parsedData = data: the three consts, then the JSX with the raw and json
\* tabs.
ParsedDataDialog(data) ==
  rendered(data, getSummaryRows(kind, data), getRawText(data), getJsonText(data))

\* The dialog is mounted with its props and renders.
Mount ==
  /\ phase = "idle"
  /\ ParsedDataDialog(parsedData)
  /\ UNCHANGED crudVars
  /\ UNCHANGED <<tz, engine, kind, parsedData, file_path, rowBadge, call>>

\* Mutant: the render puts the stamp pages in descending order with
\* Array.prototype.reverse, which reorders the payload's own array.
Rerender_reversesPages ==
  /\ phase = "rendered"
  /\ ParsedDataDialog(parsedData)
  /\ parsedData' =
       (IF parsedData.t = "object"
          THEN Obj([i \in 1..Len(parsedData.o) |->
                 IF parsedData.o[i][1] = Key_stamp_pages /\ isArray(parsedData.o[i][2])
                   THEN <<Key_stamp_pages,
                          Arr([j \in 1..Len(parsedData.o[i][2].a) |->
                                 parsedData.o[i][2].a[Len(parsedData.o[i][2].a) + 1 - j]])>>
                   ELSE parsedData.o[i]])
          ELSE parsedData)
  /\ UNCHANGED crudVars
  /\ UNCHANGED <<tz, engine, kind, file_path, rowBadge, call>>

\* React renders the mounted dialog again with the same props.
Rerender ==
  /\ phase = "rendered"
  /\ ParsedDataDialog(parsedData)
  /\ UNCHANGED crudVars
  /\ UNCHANGED <<tz, engine, kind, parsedData, file_path, rowBadge, call>>

\* The parsed_data of the entities of the list the dialog belongs to.  A
\* dialog that shows another payload belongs to a list of that one entity,
\* where viewing the row again is a render with the same props.
ListedPayloads ==
  {Null, ContractPayload, InvoicePayload, PartialInvoicePayload,
   Obj(<< <<Key_party_a, Arr(<<ObjToString>>)>> >>), CyclicPayload}

\* Mutant: the dialog takes its kind from the shape of the payload it is
\* handed (an invoice_number key makes it an invoice) instead of from the
\* kind prop written at the call site.
onViewParsedData_kindFromPayload ==
  /\ phase = "rendered"
  /\ parsedData \in ListedPayloads \cup {Undefined}
  /\ \E data \in ListedPayloads :
       /\ parsedData' = data
       /\ kind' = (IF data.t = "object" /\ Key_invoice_number \in keysOf(data) THEN "invoice" ELSE kind)
       /\ rendered(data, getSummaryRows(kind', data), getRawText(data), getJsonText(data))
  /\ UNCHANGED crudVars
  /\ UNCHANGED <<tz, engine, file_path, rowBadge, call>>

\* "View parsed data" of a row: setContractForParse(contract) /
\* setInvoiceForParse(invoice); the dialog renders with that entity's
\* parsed_data, its kind being the one written at the call site.
onViewParsedData ==
  /\ phase = "rendered"
  /\ parsedData \in ListedPayloads \cup {Undefined}
  /\ \E data \in ListedPayloads :
       /\ parsedData' = data
       /\ ParsedDataDialog(data)
  /\ UNCHANGED crudVars
  /\ UNCHANGED <<tz, engine, kind, file_path, rowBadge, call>>

\* Closing the dialog: setContractForParse(null) / setInvoiceForParse(null);
\* the dialog renders with contractForParse?.parsed_data, which is undefined.
onOpenChange ==
  /\ phase = "rendered"
  /\ parsedData' = Undefined
  /\ ParsedDataDialog(Undefined)
  /\ UNCHANGED crudVars
  /\ UNCHANGED <<tz, engine, kind, file_path, rowBadge, call>>

Next == Mount \/ Rerender \/ onViewParsedData \/ onOpenChange

Spec == Init /\ [][Next]_vars

(***************************************************************************)
(* The list rows                                                           *)
(***************************************************************************)
InitList ==
  /\ tz = 0
  /\ engine = "v8"
  /\ kind \in Kinds
  /\ parsedData \in Payloads
  /\ file_path \in FilePaths
  /\ phase = "idle"
  /\ badge = None
  /\ summaryRows = None
  /\ parseMessage = None
  /\ rawText = None
  /\ jsonText = None
  /\ rowBadge = None
  /\ call = None
  /\ NoCrud

entity == [file_path |-> file_path, parsed_data |-> parsedData]

\* The parse_status cell of a row of the contract list.
ContractRowCell ==
  /\ kind = "contract"
  /\ rowBadge' = getParseStatusBadge_contract(entity)
  /\ phase' = "rendered"
  /\ UNCHANGED crudVars
  /\ UNCHANGED <<tz, engine, kind, parsedData, file_path, badge, summaryRows,
                 parseMessage, rawText, jsonText, call>>

\* The parse_status cell of a row of the invoice list.
InvoiceRowCell ==
  /\ kind = "invoice"
  /\ rowBadge' = getParseStatusBadge_invoice(entity)
  /\ phase' = "rendered"
  /\ UNCHANGED crudVars
  /\ UNCHANGED <<tz, engine, kind, parsedData, file_path, badge, summaryRows,
                 parseMessage, rawText, jsonText, call>>

NextList == ContractRowCell \/ InvoiceRowCell

SpecList == InitList /\ [][NextList]_vars

(***************************************************************************)
(* The formatters: a caller holds an argument and applies one of them      *)
(***************************************************************************)
Pending(arg) == [t |-> "call", fn |-> "pending", arg |-> arg, result |-> None]

InitFmt ==
  /\ tz \in TzOffsets
  /\ engine \in Engines
  /\ kind = "contract"
  /\ parsedData = Undefined
  /\ file_path = None
  /\ phase = "idle"
  /\ badge = None
  /\ summaryRows = None
  /\ parseMessage = None
  /\ rawText = None
  /\ jsonText = None
  /\ rowBadge = None
  /\ call \in {Pending(v) : v \in Values}
  /\ NoCrud

Called(fn, result) ==
  /\ call.fn = "pending"
  /\ call' = [call EXCEPT !.fn = fn, !.result = result]
  /\ UNCHANGED crudVars
  /\ UNCHANGED <<tz, engine, kind, parsedData, file_path, phase, badge, summaryRows,
                 parseMessage, rawText, jsonText, rowBadge>>

CallFormatDate == Called("formatDate", formatDate(call.arg))
CallFormatMoney == Called("formatMoney", formatMoney(call.arg))
CallFormatText == Called("formatText", formatText(call.arg))
CallStampPages == Called("stampPages", stampPagesValue(call.arg))

NextFmt == CallFormatDate \/ CallFormatMoney \/ CallFormatText \/ CallStampPages

SpecFmt == InitFmt /\ [][NextFmt]_vars

(***************************************************************************)
(* The add dialogs (AddContractProject, AddContract, AddInvoice) and the   *)
(* list dialogs (ProjectDetailDialog, InvoiceDialog) with their create and *)
(* delete mutations.  One component instance is followed at a time; the    *)
(* instances share nothing but the query cache.                            *)
(***************************************************************************)
MaxMutations == 2     \* mutations started in one behaviour
MaxSessions == 2      \* an add dialog is not opened again from this fileInputKey on

AddDialogs == {"AddContractProject", "AddContract", "AddInvoice"}
ListDialogs == {"ProjectDetailDialog", "InvoiceDialog"}

\* Props: ProjectDetailDialog projectId, AddContract projectId; InvoiceDialog
\* contract.id, AddInvoice contractId.
projectId == "p1"
contractId == "c1"

\* A row of a list: the entity with its id.
Entity(id) == [t |-> "entity", id |-> id]
contractsData == {Entity("c1"), Entity("c2")}
invoicesData == {Entity("i1"), Entity("i2")}

\* A File of an <input type="file">.
File(name) == [t |-> "file", name |-> name]
Files == {File("a.pdf"), File("b.pdf")}

\* useForm({ defaultValues }) of the three add dialogs.
defaultValues(c) ==
  CASE c = "AddContractProject" ->
         [name |-> "", code |-> "", description |-> ""]
    [] c = "AddContract" ->
         [contract_number |-> "", contract_name |-> "", amount |-> Undefined,
          sign_date |-> "", effective_date |-> "", expiry_date |-> ""]
    [] c = "AddInvoice" ->
         [invoice_number |-> "", invoice_code |-> "", amount |-> Whole(0),
          invoice_date |-> "", seller |-> "", buyer |-> "",
          tax_amount |-> Undefined, remark |-> ""]

\* Values a user types into the form: a form filled in part and one filled
\* in full.
typedValues(c) ==
  CASE c = "AddContractProject" ->
         {[defaultValues(c) EXCEPT !.name = "Plant"],
          [defaultValues(c) EXCEPT !.name = "Plant", !.code = "PRJ-1"]}
    [] c = "AddContract" ->
         {[defaultValues(c) EXCEPT !.contract_name = "Lease"],
          [defaultValues(c) EXCEPT !.contract_name = "Lease",
                                   !.contract_number = "CON-1", !.amount = Whole(42)]}
    [] c = "AddInvoice" ->
         {[defaultValues(c) EXCEPT !.invoice_number = "INV-1"],
          [defaultValues(c) EXCEPT !.invoice_number = "INV-1",
                                   !.invoice_code = "0123", !.amount = Whole(42)]}

\* zodResolver(formSchema): handleSubmit calls onSubmit for these values
\* only.  Every field of AddContract is optional.
isValid(c, values) ==
  CASE c = "AddContractProject" -> values.name # "" /\ values.code # ""
    [] c = "AddContract" -> TRUE
    [] c = "AddInvoice" ->
         /\ values.invoice_number # "" /\ values.invoice_code # ""
         /\ ~isNegative(values.amount)

Toast_projectCreated ==
  Str(<<"U+9879", "U+76EE", "U+521B", "U+5EFA", "U+6210", "U+529F">>)   \* 项目创建成功
Toast_contractCreated ==
  Str(<<"U+5408", "U+540C", "U+521B", "U+5EFA", "U+6210", "U+529F">>)   \* 合同创建成功
Toast_invoiceCreated ==
  Str(<<"U+53D1", "U+7968", "U+521B", "U+5EFA", "U+6210", "U+529F">>)   \* 发票创建成功
Toast_contractDeleted ==
  Str(<<"U+5408", "U+540C", "U+5DF2", "U+5220", "U+9664">>)             \* 合同已删除
Toast_invoiceDeleted ==
  Str(<<"U+53D1", "U+7968", "U+5DF2", "U+5220", "U+9664">>)             \* 发票已删除

\* toast.success("Success!", { description })
showSuccessToast(description) == [type |-> "success", description |-> description]
\* toast.error(..., { description }) with the description handleError takes
\* from the rejected request.
showErrorToast ==
  [type |-> "error", description |-> Str(<<"d", "e", "t", "a", "i", "l">>)]

\* mutationFn of each useMutation, by the service call it makes.
createOf(c) ==
  CASE c = "AddContractProject" -> "createContractProject"
    [] c = "AddContract" -> "createContract"
    [] c = "AddInvoice" -> "createInvoice"

isCreate(fn) == fn \in {"createContractProject", "createContract", "createInvoice"}

\* The message of onSuccess.
successToast(fn) ==
  CASE fn = "createContractProject" -> Toast_projectCreated
    [] fn = "createContract" -> Toast_contractCreated
    [] fn = "createInvoice" -> Toast_invoiceCreated
    [] fn = "deleteContract" -> Toast_contractDeleted
    [] fn = "deleteInvoice" -> Toast_invoiceDeleted

\* The queryKey onSettled invalidates.
queryKeyOf(fn) ==
  CASE fn = "createContractProject" -> <<"contract-projects">>
    [] fn \in {"createContract", "deleteContract"} -> <<"contracts", projectId>>
    [] fn \in {"createInvoice", "deleteInvoice"} -> <<"invoices", contractId>>

\* mutation.mutate(variables): a request in flight.  session is the
\* fileInputKey the add dialog had when the form was submitted.
Mutation(fn, variables) ==
  [id |-> mutationId + 1, fn |-> fn, variables |-> variables, session |-> fileInputKey]

\* mutation.isPending
isPending == mutations # {}

InitCrud ==
  /\ tz = 0
  /\ engine = "v8"
  /\ kind = "contract"
  /\ parsedData = Undefined
  /\ file_path = None
  /\ phase = "idle"
  /\ badge = None
  /\ summaryRows = None
  /\ parseMessage = None
  /\ rawText = None
  /\ jsonText = None
  /\ rowBadge = None
  /\ call = None
  /\ component \in AddDialogs \cup ListDialogs
  /\ isOpen = FALSE
  /\ file = Null
  /\ fileInputKey = 0
  /\ form = (IF component \in AddDialogs THEN defaultValues(component) ELSE None)
  /\ contractForInvoices = (IF component = "InvoiceDialog" THEN Entity(contractId) ELSE Null)
  /\ contractForParse = Null
  /\ invoiceForParse = Null
  /\ mutations = {}
  /\ mutationId = 0
  /\ toast = None
  /\ stale = {}
  /\ lastConfirm = None

\* <Dialog open={isOpen} onOpenChange>: the trigger opens the dialog; Escape,
\* the overlay, the close button and Cancel close it.  AddContract and
\* AddInvoice reset on close; AddContractProject passes setIsOpen itself.
AddDialog_onOpenChange ==
  /\ component \in AddDialogs
  /\ \E open \in BOOLEAN :
       /\ open # isOpen
       /\ open => fileInputKey < MaxSessions
       /\ isOpen' = open
       /\ IF ~open /\ component # "AddContractProject"
            THEN /\ form' = defaultValues(component)
                 /\ file' = Null
                 /\ fileInputKey' = fileInputKey + 1
            ELSE UNCHANGED <<form, file, fileInputKey>>
  /\ UNCHANGED <<component, contractForInvoices, contractForParse, invoiceForParse,
                 mutations, mutationId, toast, stale, lastConfirm>>
  /\ UNCHANGED viewVars

\* The user types into the fields of the open form.
AddDialog_onChange ==
  /\ component \in AddDialogs
  /\ isOpen
  /\ form' \in typedValues(component)
  /\ UNCHANGED <<component, isOpen, file, fileInputKey, contractForInvoices,
                 contractForParse, invoiceForParse, mutations, mutationId, toast,
                 stale, lastConfirm>>
  /\ UNCHANGED viewVars

\* onChange of the file input: event.target.files?.[0] ?? null
AddDialog_onFileChange ==
  /\ component \in {"AddContract", "AddInvoice"}
  /\ isOpen
  /\ file' \in Files \cup {Null}
  /\ UNCHANGED <<component, isOpen, fileInputKey, form, contractForInvoices,
                 contractForParse, invoiceForParse, mutations, mutationId, toast,
                 stale, lastConfirm>>
  /\ UNCHANGED viewVars

\* form.handleSubmit(onSubmit): mutation.mutate({ ...data, file }).  The
\* submit button is loading while the mutation is pending.
AddDialog_onSubmit ==
  /\ component \in AddDialogs
  /\ isOpen
  /\ ~isPending
  /\ isValid(component, form)
  /\ mutationId < MaxMutations
  /\ mutations' = mutations \cup
       {Mutation(createOf(component), [data |-> form, file |-> file])}
  /\ mutationId' = mutationId + 1
  /\ UNCHANGED <<component, isOpen, file, fileInputKey, form, contractForInvoices,
                 contractForParse, invoiceForParse, toast, stale, lastConfirm>>
  /\ UNCHANGED viewVars

\* contractForInvoices?.id === contract.id
selects(selection, row) == selection # Null /\ selection.id = row.id

\* onViewInvoices of a contract row.
ProjectDetailDialog_onViewInvoices ==
  /\ component = "ProjectDetailDialog"
  /\ \E contract \in contractsData : contractForInvoices' = contract
  /\ UNCHANGED <<component, isOpen, file, fileInputKey, form, contractForParse,
                 invoiceForParse, mutations, mutationId, toast, stale, lastConfirm>>
  /\ UNCHANGED viewVars

\* onViewParsedData of a contract row.
ProjectDetailDialog_onViewParsedData ==
  /\ component = "ProjectDetailDialog"
  /\ \E contract \in contractsData : contractForParse' = contract
  /\ UNCHANGED <<component, isOpen, file, fileInputKey, form, contractForInvoices,
                 invoiceForParse, mutations, mutationId, toast, stale, lastConfirm>>
  /\ UNCHANGED viewVars

\* Mutant: onDelete clears the invoice dialog selection only; the parse
\* dialog keeps showing the contract being deleted.
ProjectDetailDialog_onDelete_keepsParse ==
  /\ component = "ProjectDetailDialog"
  /\ \E contract \in contractsData, answer \in BOOLEAN :
       /\ lastConfirm' = [target |-> contract.id, answer |-> answer]
       /\ IF ~answer
            THEN UNCHANGED <<contractForInvoices, contractForParse, mutations, mutationId>>
            ELSE /\ mutationId < MaxMutations
                 /\ contractForInvoices' =
                      (IF selects(contractForInvoices, contract) THEN Null
                       ELSE contractForInvoices)
                 /\ contractForParse' = contractForParse
                 /\ mutations' = mutations \cup {Mutation("deleteContract", contract.id)}
                 /\ mutationId' = mutationId + 1
  /\ UNCHANGED <<component, isOpen, file, fileInputKey, form, invoiceForParse,
                 toast, stale>>
  /\ UNCHANGED viewVars

\* onDelete of a contract row, with the answer to window.confirm.
ProjectDetailDialog_onDelete ==
  /\ component = "ProjectDetailDialog"
  /\ \E contract \in contractsData, answer \in BOOLEAN :
       /\ lastConfirm' = [target |-> contract.id, answer |-> answer]
       /\ IF ~answer
            THEN UNCHANGED <<contractForInvoices, contractForParse, mutations, mutationId>>
            ELSE /\ mutationId < MaxMutations
                 /\ contractForInvoices' =
                      (IF selects(contractForInvoices, contract) THEN Null
                       ELSE contractForInvoices)
                 /\ contractForParse' =
                      (IF selects(contractForParse, contract) THEN Null
                       ELSE contractForParse)
                 /\ mutations' = mutations \cup {Mutation("deleteContract", contract.id)}
                 /\ mutationId' = mutationId + 1
  /\ UNCHANGED <<component, isOpen, file, fileInputKey, form, invoiceForParse,
                 toast, stale>>
  /\ UNCHANGED viewVars

\* The parse dialog is closed (setContractForParse(null)), the invoice
\* dialog is closed (its onClose: setContractForInvoices(null)), or the
\* detail dialog itself is closed: both are cleared and the parent unmounts
\* the detail dialog.
ProjectDetailDialog_onOpenChange ==
  /\ component = "ProjectDetailDialog"
  /\ \E closed \in {"parse", "invoices", "detail"} :
       /\ contractForParse' = (IF closed = "invoices" THEN contractForParse ELSE Null)
       /\ contractForInvoices' = (IF closed = "parse" THEN contractForInvoices ELSE Null)
       /\ component' = (IF closed = "detail" THEN "none" ELSE component)
  /\ UNCHANGED <<isOpen, file, fileInputKey, form, invoiceForParse, mutations,
                 mutationId, toast, stale, lastConfirm>>
  /\ UNCHANGED viewVars

\* onViewParsedData of an invoice row.
InvoiceDialog_onViewParsedData ==
  /\ component = "InvoiceDialog"
  /\ \E invoice \in invoicesData : invoiceForParse' = invoice
  /\ UNCHANGED <<component, isOpen, file, fileInputKey, form, contractForInvoices,
                 contractForParse, mutations, mutationId, toast, stale, lastConfirm>>
  /\ UNCHANGED viewVars

\* Mutant: the delete request is issued before the prompt is answered, so it
\* is sent whatever the answer.
InvoiceDialog_onDelete_mutatesFirst ==
  /\ component = "InvoiceDialog"
  /\ \E invoice \in invoicesData, answer \in BOOLEAN :
       /\ lastConfirm' = [target |-> invoice.id, answer |-> answer]
       /\ mutationId < MaxMutations
       /\ mutations' = mutations \cup {Mutation("deleteInvoice", invoice.id)}
       /\ mutationId' = mutationId + 1
  /\ UNCHANGED <<component, isOpen, file, fileInputKey, form, contractForInvoices,
                 contractForParse, invoiceForParse, toast, stale>>
  /\ UNCHANGED viewVars

\* onDelete of an invoice row, with the answer to window.confirm.
InvoiceDialog_onDelete ==
  /\ component = "InvoiceDialog"
  /\ \E invoice \in invoicesData, answer \in BOOLEAN :
       /\ lastConfirm' = [target |-> invoice.id, answer |-> answer]
       /\ IF ~answer
            THEN UNCHANGED <<mutations, mutationId>>
            ELSE /\ mutationId < MaxMutations
                 /\ mutations' = mutations \cup {Mutation("deleteInvoice", invoice.id)}
                 /\ mutationId' = mutationId + 1
  /\ UNCHANGED <<component, isOpen, file, fileInputKey, form, contractForInvoices,
                 contractForParse, invoiceForParse, toast, stale>>
  /\ UNCHANGED viewVars

\* The parse dialog is closed (setInvoiceForParse(null)), or the invoice
\* dialog itself: onClose() clears the parent's contractForInvoices, which
\* unmounts the invoice dialog.
InvoiceDialog_onOpenChange ==
  /\ component = "InvoiceDialog"
  /\ \E closed \in {"parse", "invoices"} :
       /\ invoiceForParse' = Null
       /\ contractForInvoices' = (IF closed = "parse" THEN contractForInvoices ELSE Null)
       /\ component' = (IF closed = "parse" THEN component ELSE "none")
  /\ UNCHANGED <<isOpen, file, fileInputKey, form, contractForParse, mutations,
                 mutationId, toast, stale, lastConfirm>>
  /\ UNCHANGED viewVars

\* onSettled: queryClient.invalidateQueries({ queryKey })
onSettled(m) ==
  /\ mutations' = mutations \ {m}
  /\ stale' = stale \cup {queryKeyOf(m.fn)}

\* Mutant: onSuccess closes the dialog and resets the form, and leaves the
\* selected file and the file input as they are.
onSuccess_keepsFile(m) ==
  /\ m \in mutations
  /\ toast' = showSuccessToast(successToast(m.fn))
  /\ IF isCreate(m.fn)
       THEN /\ form' = defaultValues(component)
            /\ isOpen' = FALSE
            /\ UNCHANGED <<file, fileInputKey>>
       ELSE UNCHANGED <<form, isOpen, file, fileInputKey>>
  /\ onSettled(m)
  /\ UNCHANGED <<component, contractForInvoices, contractForParse, invoiceForParse,
                 mutationId, lastConfirm>>
  /\ UNCHANGED viewVars

\* The request of m succeeds: onSuccess, then onSettled.  onSuccess of
\* AddContract and AddInvoice resets the form, clears the file, bumps
\* fileInputKey and closes; of AddContractProject it resets and closes; of a
\* delete it only shows the toast.
onSuccess(m) ==
  /\ m \in mutations
  /\ toast' = showSuccessToast(successToast(m.fn))
  /\ IF isCreate(m.fn)
       THEN /\ form' = defaultValues(component)
            /\ isOpen' = FALSE
            /\ IF m.fn = "createContractProject"
                 THEN UNCHANGED <<file, fileInputKey>>
                 ELSE file' = Null /\ fileInputKey' = fileInputKey + 1
       ELSE UNCHANGED <<form, isOpen, file, fileInputKey>>
  /\ onSettled(m)
  /\ UNCHANGED <<component, contractForInvoices, contractForParse, invoiceForParse,
                 mutationId, lastConfirm>>
  /\ UNCHANGED viewVars

\* Mutant: the list is invalidated in onSuccess only; a failed request
\* shows its toast and leaves the query cache alone.
onError_noInvalidate(m) ==
  /\ m \in mutations
  /\ toast' = showErrorToast
  /\ mutations' = mutations \ {m}
  /\ stale' = stale
  /\ UNCHANGED <<component, isOpen, file, fileInputKey, form, contractForInvoices,
                 contractForParse, invoiceForParse, mutationId, lastConfirm>>
  /\ UNCHANGED viewVars

\* The request of m fails: onError (handleError bound to showErrorToast),
\* then onSettled.
onError(m) ==
  /\ m \in mutations
  /\ toast' = showErrorToast
  /\ onSettled(m)
  /\ UNCHANGED <<component, isOpen, file, fileInputKey, form, contractForInvoices,
                 contractForParse, invoiceForParse, mutationId, lastConfirm>>
  /\ UNCHANGED viewVars

\* The response to the request of a mutation arrives.
Settle(m) == onSuccess(m) \/ onError(m)

\* The list query of an invalidated key is fetched again.
Refetch ==
  /\ \E queryKey \in stale : stale' = stale \ {queryKey}
  /\ UNCHANGED <<component, isOpen, file, fileInputKey, form, contractForInvoices,
                 contractForParse, invoiceForParse, mutations, mutationId, toast,
                 lastConfirm>>
  /\ UNCHANGED viewVars

NextCrud ==
  \/ AddDialog_onOpenChange
  \/ AddDialog_onChange
  \/ AddDialog_onFileChange
  \/ AddDialog_onSubmit
  \/ ProjectDetailDialog_onViewInvoices
  \/ ProjectDetailDialog_onViewParsedData
  \/ ProjectDetailDialog_onDelete
  \/ ProjectDetailDialog_onOpenChange
  \/ InvoiceDialog_onViewParsedData
  \/ InvoiceDialog_onDelete
  \/ InvoiceDialog_onOpenChange
  \/ \E m \in mutations : Settle(m)
  \/ Refetch

SpecCrud == InitCrud /\ [][NextCrud]_vars

\* Every request in flight is answered or fails (the HTTP client ends each
\* request), so the response of every mutation arrives.
SpecCrudLive ==
  /\ InitCrud
  /\ [][NextCrud]_vars
  /\ \A id \in 1..(MaxMutations + 1) :
       WF_vars(\E m \in mutations : m.id = id /\ Settle(m))

(***************************************************************************)
(* Properties                                                              *)
(***************************************************************************)
absent(data) == data \in {Null, Undefined}

\* The outcome a payload is said to have.
outcomeOf(data) ==
  IF absent(data) THEN "Unparsed"
  ELSE LET status == Get(data, Key_parse_status) IN
       CASE status = S_full -> "Full"
         [] status = S_partial -> "Partial"
         [] status = S_failed -> "Failed"
         [] status = S_unsupported -> "Unsupported"
         [] OTHER -> "Unparsed"

\* The outcome a dialog badge shows.
shownOutcome(b) ==
  CASE b.label = Label_full -> "Full"
    [] b.label = Label_partial -> "Partial"
    [] b.label = Label_failed -> "Failed"
    [] b.label = Label_unsupported -> "Unsupported"
    [] b.label = Label_unparsed -> "Unparsed"
    [] OTHER -> "none"

\* C1: for every payload and kind, rendering the dialog view ends without an
\* exception, and the view has 8 rows for a present contract payload, 7 rows
\* for a present invoice payload and no row for an absent payload.  (Stated
\* for the JSON payloads; one with a reference cycle is the subject of C17.)
C1_RenderTotalRowCount ==
  (phase # "idle" /\ ~hasCycle(parsedData)) =>
    /\ phase = "rendered"
    /\ Len(summaryRows.a) =
         (IF absent(parsedData) THEN 0 ELSE IF kind = "contract" THEN 8 ELSE 7)

\* C2: the classification is total and gives exactly the outcome of the
\* payload: Unparsed for an absent payload, Full / Partial / Failed /
\* Unsupported for the four status strings, Unparsed for every other payload;
\* the badge the dialog renders is that classification.
C2_ClassificationTotal ==
  /\ shownOutcome(getParseStatusBadge(parsedData)) = outcomeOf(parsedData)
  /\ phase = "rendered" => shownOutcome(badge) = outcomeOf(parsedData)

C2_Witness ==
  /\ phase = "rendered"
  /\ Get(parsedData, Key_parse_status) = Whole(42)
  /\ badge.label = Label_unparsed

\* C3: a list row's badge reads the file reference before the payload: with
\* no file_path the label is "not uploaded" whatever parsed_data holds; with a
\* file_path the status decides, an absent or unrecognized one giving
\* "pending".
C3_FileBeforePayload ==
  phase = "rendered" =>
    IF file_path \in {Undefined, Null, S_empty}
      THEN rowBadge.label = Label_notUploaded
      ELSE IF outcomeOf(parsedData) = "Unparsed"
        THEN rowBadge.label = Label_pending
        ELSE rowBadge.label \notin {Label_notUploaded, Label_pending, Label_unparsed}

C3_Witness ==
  /\ phase = "rendered"
  /\ file_path = S_empty
  /\ Get(parsedData, Key_parse_status) = S_full
  /\ rowBadge.label = Label_notUploaded

\* The severity a badge variant stands for.
severityOf(variant) ==
  CASE variant = "outline" -> "neutral"
    [] variant = "secondary" -> "secondary"
    [] variant = "destructive" -> "danger"
    [] OTHER -> "info"

rowOutcome == IF truthy(file_path) THEN outcomeOf(parsedData) ELSE "Unparsed"

\* C4 as stated: the row badge's severity takes four values fixed by the
\* outcome: neutral for Unparsed and Unsupported, info for Partial, the
\* secondary tone for Full, danger for Failed.
C4_FourSeverities ==
  phase = "rendered" =>
    severityOf(rowBadge.variant) =
      (CASE rowOutcome \in {"Unparsed", "Unsupported"} -> "neutral"
         [] rowOutcome = "Partial" -> "info"
         [] rowOutcome = "Full" -> "secondary"
         [] rowOutcome = "Failed" -> "danger")

\* C4 amended: the row badge's severity takes three values fixed by the
\* outcome: neutral (outline) for Unparsed and Unsupported, the secondary
\* tone for both Partial and Full, danger (destructive) for Failed.
C4_ThreeSeverities ==
  phase = "rendered" =>
    rowBadge.variant =
      (CASE rowOutcome \in {"Unparsed", "Unsupported"} -> "outline"
         [] rowOutcome \in {"Partial", "Full"} -> "secondary"
         [] rowOutcome = "Failed" -> "destructive")

C4_Witness ==
  /\ phase = "rendered"
  /\ truthy(file_path)
  /\ outcomeOf(parsedData) = "Partial"
  /\ rowBadge.variant = "secondary"

\* s is digits in groups of three separated by ",", the first group of one
\* to three digits.
RECURSIVE isGrouped(_)
isGrouped(s) ==
  IF Len(s) <= 3 THEN Len(s) >= 1 /\ allDigits(s)
  ELSE /\ allDigits(SubSeq(s, Len(s) - 2, Len(s)))
       /\ s[Len(s) - 3] = ","
       /\ isGrouped(SubSeq(s, 1, Len(s) - 4))

\* s is the yen sign, an optional minus, a grouped integer part, "." and
\* exactly two fraction digits.
isMoneyTwoDigits(s) ==
  /\ Len(s) >= 5
  /\ s[1] = "U+00A5"
  /\ s[Len(s) - 2] = "."
  /\ allDigits(SubSeq(s, Len(s) - 1, Len(s)))
  /\ isGrouped(SubSeq(s, (IF s[2] = "-" THEN 3 ELSE 2), Len(s) - 3))

\* C5: formatMoney gives "-" for every value that is not a number, and for
\* every number the yen sign followed by the amount with thousands separators
\* and exactly two fraction digits.
C5_MoneyTwoDigits ==
  call.fn = "formatMoney" =>
    IF call.arg.t # "number" THEN call.result = Dash
    ELSE call.result.t = "string" /\ isMoneyTwoDigits(call.result.s)

\* s is year/month/day in digits only, naming a calendar day.
isDayDate(s) ==
  \E i, j \in 1..Len(s) :
    /\ 1 < i /\ i + 1 < j /\ j < Len(s)
    /\ s[i] = "/" /\ s[j] = "/"
    /\ allDigits(SubSeq(s, 1, i - 1))
    /\ allDigits(SubSeq(s, i + 1, j - 1))
    /\ allDigits(SubSeq(s, j + 1, Len(s)))
    /\ parseNat(SubSeq(s, i + 1, j - 1)) \in 1..12
    /\ parseNat(SubSeq(s, j + 1, Len(s))) \in
         1..daysInMonth(parseNat(SubSeq(s, 1, i - 1)), parseNat(SubSeq(s, i + 1, j - 1)))

\* C6: formatDate never throws; it gives "-" for every value that is not a
\* non-empty string, the string itself when it does not parse as a date, and
\* a year/month/day date without a time part when it parses.
C6_FormatDate ==
  call.fn = "formatDate" =>
    /\ call.result.t = "string"
    /\ IF call.arg.t # "string" \/ call.arg.s = <<>> THEN call.result = Dash
       ELSE IF newDate(call.arg.s) = InvalidDate THEN call.result = call.arg
       ELSE isDayDate(call.result.s)

C6_Witness ==
  /\ call.fn = "formatDate"
  /\ call.arg = S_isoUtc
  /\ tz = 480
  /\ call.result = Str(<<"2", "0", "2", "4", "/", "1", "/", "1", "6">>)

\* The string form of an array element as join takes it.
elementText(e) == IF e \in {Null, Undefined} THEN Str(<<>>) ELSE toStringJS(e)

RECURSIVE commaJoined(_)
commaJoined(a) ==
  IF a = <<>> THEN Str(<<>>)
  ELSE IF Len(a) = 1 THEN elementText(a[1])
  ELSE cat(cat(elementText(a[1]), Str(<<",", " ">>)), commaJoined(Tail(a)))

\* C7: formatText never throws; it gives "-" for null, undefined and the
\* empty string, the comma-joined string forms of the elements for an array,
\* the JSON serialization for any other object, and the string form for every
\* other value.
C7_FormatText ==
  call.fn = "formatText" =>
    /\ call.result.t = "string"
    /\ IF call.arg \in {Null, Undefined, S_empty} THEN call.result = Dash
       ELSE IF call.arg.t = "array" THEN call.result = commaJoined(call.arg.a)
       ELSE IF call.arg.t = "object" THEN call.result = Str(stringify(call.arg))
       ELSE call.result = toStringJS(call.arg)

\* The formatter a projection names, applied to a field value.
applied(fmt, value) ==
  CASE fmt = "text" -> formatText(value)
    [] fmt = "date" -> formatDate(value)
    [] fmt = "money" -> formatMoney(value)
    [] fmt = "pages" -> stampPagesValue(value)

\* The rows of a projection (a list of <<label, key, formatter>>) of data.
projected(projection, data) ==
  [i \in 1..Len(projection) |->
     [label |-> projection[i][1],
      value |-> applied(projection[i][3], Get(data, projection[i][2]))]]

\* getSummaryRows gives the projection of the payload, and throws exactly
\* when a formatter of the projection throws.
givesProjection(projection) ==
  LET rows == projected(projection, parsedData) IN
  IF \E i \in 1..Len(rows) : rows[i].value = TypeError
    THEN getSummaryRows(kind, parsedData) = TypeError /\ phase = "crashed"
    ELSE /\ getSummaryRows(kind, parsedData) = Arr(rows)
         /\ IF hasCycle(parsedData) THEN phase = "crashed"
            ELSE phase = "rendered" /\ summaryRows = Arr(rows)

ContractProjection ==
  << <<Label_party_a, Key_party_a, "text">>,
     <<Label_party_b, Key_party_b, "text">>,
     <<Label_contract_number, Key_contract_number, "text">>,
     <<Label_sign_date, Key_sign_date, "date">>,
     <<Label_effective_date, Key_effective_date, "date">>,
     <<Label_expiry_date, Key_expiry_date, "date">>,
     <<Label_contract_amount, Key_amount, "money">>,
     <<Label_stamp_pages, Key_stamp_pages, "pages">> >>

InvoiceProjection ==
  << <<Label_invoice_number, Key_invoice_number, "text">>,
     <<Label_invoice_code, Key_invoice_code, "text">>,
     <<Label_invoice_date, Key_invoice_date, "date">>,
     <<Label_seller, Key_seller, "text">>,
     <<Label_buyer, Key_buyer, "text">>,
     <<Label_invoice_amount, Key_amount, "money">>,
     <<Label_tax_amount, Key_tax_amount, "money">> >>

\* C8: for kind contract and a present payload the rows are party_a,
\* party_b, contract_number (text), sign_date, effective_date, expiry_date
\* (date), amount (money), stamp_pages (page list), in this order whatever the
\* payload, each value the formatter's result for that field.
C8_ContractRows ==
  (phase # "idle" /\ kind = "contract" /\ ~absent(parsedData))
    => givesProjection(ContractProjection)

C8_Witness ==
  /\ phase = "rendered"
  /\ kind = "contract"
  /\ parsedData = ContractPayload
  /\ Len(summaryRows.a) = 8
  /\ summaryRows.a[1] = [label |-> Label_party_a, value |-> S_ACo]
  /\ summaryRows.a[6] = [label |-> Label_expiry_date, value |-> S_notADate]

\* C9: for kind invoice and a present payload the rows are invoice_number,
\* invoice_code (text), invoice_date (date), seller, buyer (text), amount,
\* tax_amount (money), in this order whatever the payload, each value the
\* formatter's result for that field.
C9_InvoiceRows ==
  (phase # "idle" /\ kind = "invoice" /\ ~absent(parsedData))
    => givesProjection(InvoiceProjection)

C9_Witness ==
  /\ phase = "rendered"
  /\ kind = "invoice"
  /\ parsedData = InvoicePayload
  /\ Len(summaryRows.a) = 7
  /\ summaryRows.a[4] = [label |-> Label_seller, value |-> S_ACo]
  /\ summaryRows.a[7] =
       [label |-> Label_tax_amount, value |-> Str(<<"U+00A5", "0", ".", "0", "6", "3">>)]

\* a is a list of zero-based page indices: whole numbers from 0 on.
isPageList(a) ==
  \A i \in 1..Len(a) : a[i].t = "number" /\ a[i].f = 0 /\ a[i].w >= 0

\* The 1-based page numbers of a page list, joined by ", ".
RECURSIVE pageNumbers(_)
pageNumbers(a) ==
  IF Len(a) = 1 THEN natToString(a[1].w + 1)
  ELSE natToString(a[1].w + 1) \o <<",", " ">> \o pageNumbers(Tail(a))

\* C10: the stamp pages value of an array of zero-based page indices is the
\* ", "-joined list of the 1-based page numbers, and it is "-" when
\* stamp_pages is an empty array, not an array, or absent.
C10_StampPages ==
  call.fn = "stampPages" =>
    IF call.arg.t # "array" \/ call.arg.a = <<>> THEN call.result = Dash
    ELSE isPageList(call.arg.a) => call.result = Str(pageNumbers(call.arg.a))

C10_Witness ==
  /\ call.fn = "stampPages"
  /\ call.arg = Arr(<<Whole(0), Whole(2), Whole(5)>>)
  /\ call.result = Str(<<"1", ",", " ", "3", ",", " ", "6">>)

projectionOf(k) == IF k = "contract" THEN ContractProjection ELSE InvoiceProjection

\* The keys of a projection that data does not hold.
missingAt(projection, data) ==
  {i \in 1..Len(projection) : projection[i][2] \notin keysOf(data)}

\* C11: for a present payload a missing field never removes its row: the
\* formatter of a missing field gives "-" and never throws, the rendered row
\* list keeps its full length with that row at its fixed position holding
\* "-", the fields that are present keep their formatted value, and the
\* outcome shown is the one parse_status alone gives.
C11_MissingFieldKeepsRow ==
  (phase # "idle" /\ ~absent(parsedData)) =>
    LET projection == projectionOf(kind)
        rows == projected(projection, parsedData)
    IN /\ \A i \in missingAt(projection, parsedData) : rows[i].value = Dash
       /\ phase = "rendered" =>
            /\ Len(summaryRows.a) = Len(projection)
            /\ \A i \in 1..Len(projection) :
                 /\ summaryRows.a[i].label = projection[i][1]
                 /\ summaryRows.a[i].value =
                      (IF i \in missingAt(projection, parsedData) THEN Dash
                       ELSE rows[i].value)
            /\ shownOutcome(badge) = outcomeOf(parsedData)

C11_Witness ==
  /\ phase = "rendered"
  /\ kind = "invoice"
  /\ parsedData = PartialInvoicePayload
  /\ shownOutcome(badge) = "Partial"
  /\ Len(summaryRows.a) = 7
  /\ summaryRows.a[1] = [label |-> Label_invoice_number, value |-> Dash]
  /\ summaryRows.a[4] = [label |-> Label_seller, value |-> S_ACo]
  /\ summaryRows.a[6] =
       [label |-> Label_invoice_amount,
        value |-> Str(<<"U+00A5", "1", ",", "0", "0", "0", ".", "0", "0">>)]
  /\ summaryRows.a[7] = [label |-> Label_tax_amount, value |-> Dash]

\* The keys a kind's rows read.
projectedKeys(k) ==
  LET projection == projectionOf(k) IN {projection[i][2] : i \in 1..Len(projection)}

\* data with every key outside keys removed.
restrictedTo(keys, data) == Obj(SelectSeq(data.o, LAMBDA m : m[1] \in keys))

\* data with every key of AllKeys outside keys set to a value no formatter
\* could turn into text.
floodedOutside(keys, data) ==
  Obj(restrictedTo(keys, data).o
        \o [i \in 1..Len(SelectSeq(AllKeys, LAMBDA key : key \notin keys)) |->
              <<SelectSeq(AllKeys, LAMBDA key : key \notin keys)[i], Arr(<<ObjToString>>)>>])

\* C12: the row list of a present payload is decided by the fields projected
\* for the kind alone: it is the row list of the payload cut down to those
\* fields, and of that payload with every other key (parse_status,
\* parse_message, raw_text, the other kind's fields, unknown keys) set to
\* something else, so two payloads that agree on the projected fields give
\* identical row lists.
C12_ExtraKeysIgnored ==
  (phase # "idle" /\ ~absent(parsedData)) =>
    LET keys == projectedKeys(kind)
        rows == getSummaryRows(kind, restrictedTo(keys, parsedData))
    IN /\ getSummaryRows(kind, parsedData) = rows
       /\ getSummaryRows(kind, floodedOutside(keys, parsedData)) = rows
       /\ phase = "rendered" => summaryRows = rows

C12_Witness ==
  /\ phase = "rendered"
  /\ kind = "invoice"
  /\ parsedData = ContractPayload
  /\ restrictedTo(projectedKeys(kind), parsedData) = Obj(<< <<Key_amount, N_1234_5>> >>)
  /\ summaryRows = getSummaryRows(kind, Obj(<< <<Key_amount, N_1234_5>> >>))
  /\ summaryRows.a[6].value = Str(<<"U+00A5", "1", ",", "2", "3", "4", ".", "5", "0">>)
  /\ summaryRows.a[4].value = Dash

\* C13: the message of the view is payload.parse_message when the payload is
\* present and parse_message is a string (the empty string included), and the
\* placeholder "no parse information" when the payload is absent, the field
\* is missing, or the field is not a string.
C13_Message ==
  LET field == Get(parsedData, Key_parse_message)
      expected == IF ~absent(parsedData) /\ field.t = "string"
                    THEN field ELSE Text_noMessage
  IN /\ getParseMessage(parsedData) = expected
     /\ phase = "rendered" => parseMessage = expected

C13_Witness ==
  /\ phase = "rendered"
  /\ Get(parsedData, Key_parse_message) = N_1234_5
  /\ parseMessage = Text_noMessage

\* C14: the raw text of the view is payload.raw_text when the payload is
\* present and raw_text is a string, and the empty string otherwise; the raw
\* tab shows that text, and the placeholder "no raw text" when it is empty.
C14_RawText ==
  LET field == Get(parsedData, Key_raw_text)
      expected == IF ~absent(parsedData) /\ field.t = "string" THEN field ELSE S_empty
  IN /\ getRawText(parsedData) = expected
     /\ phase = "rendered" =>
          rawText = (IF expected = S_empty THEN Text_noRawText ELSE expected)

C14_Witness ==
  /\ phase = "rendered"
  /\ Get(parsedData, Key_raw_text) = S_empty
  /\ getRawText(parsedData) = S_empty
  /\ rawText = Text_noRawText

\* The result of JSON.parse on a text that is not JSON.
SyntaxError == [t |-> "SyntaxError"]

\* A parse step: the value read and the index after it, or a failure.
Parsed(v, i) == [ok |-> TRUE, v |-> v, i |-> i]
NotParsed == [ok |-> FALSE]

RECURSIVE skipWs(_, _)
\* index of the first character from i on that is not JSON white space
skipWs(s, i) ==
  IF i <= Len(s) /\ s[i] \in {" ", "\n"} THEN skipWs(s, i + 1) ELSE i

RECURSIVE parseChars(_, _)
\* the characters of a JSON string from index i (after the opening quote) up
\* to the closing quote, escapes undone
parseChars(s, i) ==
  IF i > Len(s) THEN NotParsed
  ELSE IF s[i] = "\"" THEN Parsed(<<>>, i + 1)
  ELSE IF s[i] = "\\"
    THEN IF i + 1 <= Len(s) /\ s[i + 1] \in {"\"", "\\", "/"}
           THEN LET rest == parseChars(s, i + 2)
                IN IF rest.ok THEN Parsed(<<s[i + 1]>> \o rest.v, rest.i) ELSE NotParsed
           ELSE NotParsed
  ELSE LET rest == parseChars(s, i + 1)
       IN IF rest.ok THEN Parsed(<<s[i]>> \o rest.v, rest.i) ELSE NotParsed

RECURSIVE digitsEnd(_, _)
\* index after the run of digits that starts at i
digitsEnd(s, i) == IF i <= Len(s) /\ isDigit(s[i]) THEN digitsEnd(s, i + 1) ELSE i

\* A JSON number at index i: -? digits (. digits)?; the fraction is read to
\* ten-thousandths.
parseNumber(s, i) ==
  LET negative == s[i] = "-"
      from == IF negative THEN i + 1 ELSE i
      wholeEnd == digitsEnd(s, from)
      hasFrac == wholeEnd <= Len(s) /\ s[wholeEnd] = "."
      fracEnd == IF hasFrac THEN digitsEnd(s, wholeEnd + 1) ELSE wholeEnd
      whole == parseNat(SubSeq(s, from, wholeEnd - 1))
      fracDigits == IF hasFrac THEN SubSeq(s, wholeEnd + 1, fracEnd - 1) ELSE <<>>
      frac == parseNat(SubSeq(fracDigits \o <<"0", "0", "0", "0">>, 1, 4))
  IN IF wholeEnd = from \/ (hasFrac /\ fracEnd = wholeEnd + 1) THEN NotParsed
     ELSE IF ~negative THEN Parsed(Num(whole, frac), fracEnd)
     ELSE IF frac = 0 THEN Parsed(Num(-whole, 0), fracEnd)
     ELSE Parsed(Num(-whole - 1, Unit - frac), fracEnd)

\* word stands at index i of s
startsWith(s, i, word) ==
  i + Len(word) - 1 <= Len(s) /\ SubSeq(s, i, i + Len(word) - 1) = word

RECURSIVE parseValue(_, _)
RECURSIVE parseElements(_, _)
RECURSIVE parseMembers(_, _)

\* A JSON value at index i.
parseValue(s, i) ==
  IF i > Len(s) THEN NotParsed
  ELSE IF s[i] = "\"" THEN
    LET r == parseChars(s, i + 1) IN IF r.ok THEN Parsed(Str(r.v), r.i) ELSE NotParsed
  ELSE IF s[i] = "[" THEN
    LET j == skipWs(s, i + 1)
    IN IF j <= Len(s) /\ s[j] = "]" THEN Parsed(Arr(<<>>), j + 1)
       ELSE LET r == parseElements(s, j)
            IN IF r.ok THEN Parsed(Arr(r.v), r.i) ELSE NotParsed
  ELSE IF s[i] = "{" THEN
    LET j == skipWs(s, i + 1)
    IN IF j <= Len(s) /\ s[j] = "}" THEN Parsed(Obj(<<>>), j + 1)
       ELSE LET r == parseMembers(s, j)
            IN IF r.ok THEN Parsed(Obj(r.v), r.i) ELSE NotParsed
  ELSE IF startsWith(s, i, Chars_null) THEN Parsed(Null, i + 4)
  ELSE IF startsWith(s, i, Chars_true) THEN Parsed(Bool(TRUE), i + 4)
  ELSE IF startsWith(s, i, Chars_false) THEN Parsed(Bool(FALSE), i + 5)
  ELSE parseNumber(s, i)

\* value (, value)* ] from index i
parseElements(s, i) ==
  LET e == parseValue(s, i) IN
  IF ~e.ok THEN NotParsed
  ELSE LET j == skipWs(s, e.i) IN
       IF j > Len(s) THEN NotParsed
       ELSE IF s[j] = "]" THEN Parsed(<<e.v>>, j + 1)
       ELSE IF s[j] = "," THEN
         LET rest == parseElements(s, skipWs(s, j + 1))
         IN IF rest.ok THEN Parsed(<<e.v>> \o rest.v, rest.i) ELSE NotParsed
       ELSE NotParsed

\* "key" : value (, "key" : value)* } from index i; the text at hand holds no
\* key twice
parseMembers(s, i) ==
  IF i > Len(s) \/ s[i] # "\"" THEN NotParsed
  ELSE LET key == parseChars(s, i + 1) IN
  IF ~key.ok THEN NotParsed
  ELSE LET colon == skipWs(s, key.i) IN
  IF colon > Len(s) \/ s[colon] # ":" THEN NotParsed
  ELSE LET e == parseValue(s, skipWs(s, colon + 1)) IN
  IF ~e.ok THEN NotParsed
  ELSE LET j == skipWs(s, e.i) IN
       IF j > Len(s) THEN NotParsed
       ELSE IF s[j] = "}" THEN Parsed(<< <<key.v, e.v>> >>, j + 1)
       ELSE IF s[j] = "," THEN
         LET rest == parseMembers(s, skipWs(s, j + 1))
         IN IF rest.ok THEN Parsed(<< <<key.v, e.v>> >> \o rest.v, rest.i) ELSE NotParsed
       ELSE NotParsed

\* JSON.parse(text)
JSONparse(s) ==
  LET r == parseValue(s, skipWs(s, 1))
  IN IF r.ok /\ skipWs(s, r.i) = Len(s) + 1 THEN r.v ELSE SyntaxError

RECURSIVE linesOf(_)
\* The lines an indented serialization of v takes: one for a primitive or an
\* empty container, and the two bracket lines around the lines of the
\* elements or members otherwise.
linesOf(v) ==
  IF v.t = "array" /\ v.a # <<>>
    THEN LET n[i \in 0..Len(v.a)] == IF i = 0 THEN 2 ELSE n[i - 1] + linesOf(v.a[i])
         IN n[Len(v.a)]
  ELSE IF v.t = "object" /\ v.o # <<>>
    THEN LET n[i \in 0..Len(v.o)] == IF i = 0 THEN 2 ELSE n[i - 1] + linesOf(v.o[i][2])
         IN n[Len(v.o)]
  ELSE 1

RECURSIVE lineEnd(_, _)
\* The last index of the line of s that holds index b.
lineEnd(s, b) ==
  IF b > Len(s) \/ s[b] = "\n" THEN b - 1 ELSE lineEnd(s, b + 1)

RECURSIVE indentAt(_, _)
\* The number of spaces of s from index b on.
indentAt(s, b) ==
  IF b <= Len(s) /\ s[b] = " " THEN 1 + indentAt(s, b + 1) ELSE 0

\* s is indented by two spaces a level: the first line is not indented, a
\* line after one that ends with an opening bracket is two spaces deeper, a
\* line that starts with a closing bracket is two spaces shallower than the
\* line before, and every other line is as deep as the line before.  (A line
\* break inside a JSON string is escaped, so every line break is structure.)
indentedByTwo(s) ==
  /\ indentAt(s, 1) = 0
  /\ \A b \in {1} \cup {i + 1 : i \in {j \in 1..Len(s) : s[j] = "\n"}} :
       lineEnd(s, b) < Len(s) =>
         LET next == lineEnd(s, b) + 2
         IN indentAt(s, next) =
              (IF s[lineEnd(s, b)] \in {"{", "["} THEN indentAt(s, b) + 2
               ELSE IF s[next + indentAt(s, next)] \in {"}", "]"} THEN indentAt(s, b) - 2
               ELSE indentAt(s, b))

\* C15: the raw JSON of the view is the empty string for an absent payload
\* (the json tab then shows its placeholder) and for a present JSON payload
\* (one without a reference cycle) the serialization of the whole payload
\* indented by two spaces, one line per primitive, empty container or
\* bracket; parsing it back gives a value equal to the payload.
C15_JsonRoundTrip ==
  (phase # "idle" /\ ~hasCycle(parsedData)) =>
    IF absent(parsedData)
      THEN /\ getJsonText(parsedData) = S_empty
           /\ jsonText = Text_noJson
      ELSE LET text == getJsonText(parsedData).s
           IN /\ JSONparse(text) = parsedData
              /\ indentedByTwo(text)
              /\ Cardinality({i \in 1..Len(text) : text[i] = "\n"}) + 1
                   = linesOf(parsedData)
              /\ phase = "rendered" => jsonText = Str(text)

C15_Witness ==
  /\ phase = "rendered"
  /\ parsedData = ContractPayload
  /\ Len(jsonText.s) > 100
  /\ SubSeq(jsonText.s, 1, 6) = <<"{", "\n", " ", " ", "\"", "p">>
  /\ JSONparse(jsonText.s) = ContractPayload

\* The text a tab shows for a text of the view: the placeholder when empty.
shown(text, placeholder) == IF text = S_empty THEN placeholder ELSE text

\* C16: building the view is deterministic and history-free: whatever was
\* built before (other rows' payloads, the closed dialog, the same payload
\* again), the view on screen is the one the current kind and payload give
\* on their own, so two builds for the same kind and payload are equal in
\* outcome, message, rows, raw text and raw JSON.
C16_HistoryFree ==
  phase = "rendered" =>
    /\ badge = getParseStatusBadge(parsedData)
    /\ parseMessage = getParseMessage(parsedData)
    /\ summaryRows = getSummaryRows(kind, parsedData)
    /\ rawText = shown(getRawText(parsedData), Text_noRawText)
    /\ jsonText = shown(getJsonText(parsedData), Text_noJson)

C16_Witness ==
  /\ phase = "rendered"
  /\ kind = "contract"
  /\ parsedData = InvoicePayload
  /\ badge.label = Label_failed
  /\ parseMessage = Text_noMessage
  /\ rawText = Text_noRawText
  /\ Len(summaryRows.a) = 8
  /\ summaryRows.a[7].value =
       Str(<<"U+00A5", "1", ",", "2", "3", "4", ",", "5", "6", "7", ".", "8", "9", "1">>)
  /\ JSONparse(jsonText.s) = InvoicePayload

\* C17: no malformed payload makes the core fail: for wrong field types,
\* missing fields and payloads with a reference cycle, every render of the
\* dialog ends without an exception, and its classification, row list,
\* message, raw text and raw JSON are values of their kind (the outcome of
\* the payload, an array, strings).
C17_NoFailure ==
  phase # "idle" =>
    /\ phase = "rendered"
    /\ shownOutcome(badge) = outcomeOf(parsedData)
    /\ summaryRows.t = "array"
    /\ parseMessage.t = "string"
    /\ rawText.t = "string"
    /\ jsonText.t = "string"

\* C18: within one kind no two rows carry the same label: the row list of
\* every present payload has 8 (contract) or 7 (invoice) rows whose labels
\* are pairwise distinct, so the label is a unique key of the rendered rows.
C18_DistinctLabels ==
  /\ (phase # "idle" /\ ~absent(parsedData)) =>
       LET rows == IF kind = "contract" THEN contractRows(parsedData)
                   ELSE invoiceRows(parsedData)
       IN /\ Len(rows) = (IF kind = "contract" THEN 8 ELSE 7)
          /\ \A i, j \in 1..Len(rows) : rows[i].label = rows[j].label => i = j
  /\ phase = "rendered" =>
       \A i, j \in 1..Len(summaryRows.a) :
         summaryRows.a[i].label = summaryRows.a[j].label => i = j

C18_Witness ==
  /\ phase = "rendered"
  /\ kind = "contract"
  /\ parsedData = ContractPayload
  /\ Cardinality({summaryRows.a[i].label : i \in 1..Len(summaryRows.a)}) = 8

C20_CallSitesAgree ==
  truthy(file_path) =>
    LET dialog == getParseStatusBadge(parsedData)
        contract == getParseStatusBadge_contract(entity)
        invoice == getParseStatusBadge_invoice(entity)
    IN /\ contract.variant = dialog.variant
       /\ invoice.variant = dialog.variant
       /\ invoice.label = contract.label
       /\ IF outcomeOf(parsedData) = "Unparsed"
            THEN contract.label = Label_pending /\ dialog.label = Label_unparsed
            ELSE contract.label = dialog.label
       /\ phase = "rendered" =>
            rowBadge = (IF kind = "contract" THEN contract ELSE invoice)

C20_Witness ==
  /\ phase = "rendered"
  /\ kind = "invoice"
  /\ file_path = S_pdf
  /\ Get(parsedData, Key_parse_status) = S_bogus
  /\ rowBadge = [label |-> Label_pending, variant |-> "outline"]
  /\ getParseStatusBadge(parsedData) = [label |-> Label_unparsed, variant |-> "outline"]

\* C21: the kind of a parse dialog is fixed by the call site that renders
\* it and never changes while it is shown: no step (mount, render, viewing
\* another row, closing) changes kind, and after every step that rendered,
\* the rows on screen are the projection of that call site's kind (contract:
\* 8 rows, invoice: 7 rows) applied to the parsed_data of the entity now
\* selected, or no rows when no entity is selected or it has no payload.
C21_KindFixed ==
  [][/\ kind' = kind
     /\ phase' = "rendered" =>
          summaryRows' =
            (IF absent(parsedData') THEN Arr(<<>>)
             ELSE Arr(projected(projectionOf(kind), parsedData')))]_vars

C21_Witness ==
  /\ phase = "rendered"
  /\ kind = "invoice"
  /\ parsedData = ContractPayload
  /\ Len(summaryRows.a) = 7
  /\ summaryRows.a[1] = [label |-> Label_invoice_number, value |-> Dash]
  /\ summaryRows.a[6].label = Label_invoice_amount
  /\ summaryRows.a[6].value # Dash

\* C22: every summary row value is a non-empty string: for every present
\* payload and both kinds, each row the dialog shows holds a string of at
\* least one character; a missing or empty field value (an empty array or an
\* array of null or empty elements in a text field included) shows "-",
\* never the empty string.
C22_ValueNonEmpty ==
  (phase = "rendered" /\ ~absent(parsedData)) =>
    \A i \in 1..Len(summaryRows.a) :
      /\ summaryRows.a[i].value.t = "string"
      /\ summaryRows.a[i].value.s # <<>>

\* s is YYYY-MM-DD naming a day of the calendar.
isDateOnly(s) ==
  /\ Len(s) = 10
  /\ isYmd(s, "-")
  /\ parseNat(SubSeq(s, 6, 7)) \in 1..12
  /\ parseNat(SubSeq(s, 9, 10)) \in
       1..daysInMonth(parseNat(SubSeq(s, 1, 4)), parseNat(SubSeq(s, 6, 7)))

\* The year/month/day, without padding, of the day YYYY-MM-DD names.
sameDay(s) ==
  natToString(parseNat(SubSeq(s, 1, 4))) \o <<"/">>
    \o natToString(parseNat(SubSeq(s, 6, 7))) \o <<"/">>
    \o natToString(parseNat(SubSeq(s, 9, 10)))

\* C23: for a date-only string YYYY-MM-DD naming a valid calendar day,
\* formatDate shows that same year, month and day whatever the viewer's
\* time-zone offset: parsing and formatting in local time never shift the
\* date by a day.
C23_SameCalendarDay ==
  (call.fn = "formatDate" /\ call.arg.t = "string" /\ isDateOnly(call.arg.s))
    => call.result = Str(sameDay(call.arg.s))

\* The text of element e plus one.
plusOneText(e) == numberToString(Num(e.w + 1, e.f))

\* The texts of the numbers nums plus one, in order, joined by ", ".
listedPlusOne(nums) ==
  LET F[i \in 1..Len(nums)] ==
        IF i = 1 THEN plusOneText(nums[1])
        ELSE F[i - 1] \o <<",", " ">> \o plusOneText(nums[i])
  IN F[Len(nums)]

\* C24: when stamp_pages is an array, the stamp pages value lists exactly
\* its elements that are numbers, each plus one, in their order and with
\* duplicates kept; the other elements are dropped and change nothing about
\* the numbers around them; when no number remains the value is "-".
C24_StampPagesFilter ==
  (call.fn = "stampPages" /\ call.arg.t = "array") =>
    LET nums == SelectSeq(call.arg.a, LAMBDA e : e.t = "number")
    IN IF nums = <<>> THEN call.result = Dash
       ELSE call.result = Str(listedPlusOne(nums))

C24_Witness ==
  /\ call.fn = "stampPages"
  /\ call.arg = Arr(<<Whole(2), S_ACo, Whole(2)>>)
  /\ call.result = Str(<<"3", ",", " ", "3">>)

\* The step in which the user confirms the deletion of contract row c.
confirmsDelete(c) ==
  /\ ProjectDetailDialog_onDelete
  /\ lastConfirm' = [target |-> c.id, answer |-> TRUE]
  /\ mutationId' = mutationId + 1

\* C25: in the project detail dialog, the step in which the user confirms
\* the deletion of a contract leaves neither the invoice dialog selection
\* nor the parse dialog selection on that contract: a selection of the
\* deleted contract is null when the delete request is issued (in that same
\* step), and a selection of another contract, or no selection, is what it
\* was.
C25_DeleteClearsSelections ==
  [][\A c \in contractsData :
       confirmsDelete(c) =>
         /\ contractForInvoices' =
              (IF contractForInvoices = c THEN Null ELSE contractForInvoices)
         /\ contractForParse' = (IF contractForParse = c THEN Null ELSE contractForParse)
         /\ contractForInvoices' # c /\ contractForParse' # c
         /\ \E m \in mutations' \ mutations :
              m.fn = "deleteContract" /\ m.variables = c.id]_vars

C25_Witness ==
  /\ component = "ProjectDetailDialog"
  /\ lastConfirm = [target |-> "c1", answer |-> TRUE]
  /\ contractForParse = Null
  /\ contractForInvoices = Entity("c2")
  /\ \E m \in mutations : m.fn = "deleteContract" /\ m.variables = "c1"
  /\ mutationId = 1

\* The step in which the user declines the prompt of an onDelete.
declinesDelete ==
  /\ ProjectDetailDialog_onDelete \/ InvoiceDialog_onDelete
  /\ lastConfirm'.answer = FALSE

\* C26: declining the confirmation prompt of a contract or invoice deletion
\* changes nothing: in that step no delete request is started, no query key
\* is invalidated, no toast is shown, and contractForInvoices,
\* contractForParse and invoiceForParse keep their values.
C26_DeclineChangesNothing ==
  [][declinesDelete =>
       /\ mutations' = mutations /\ mutationId' = mutationId
       /\ stale' = stale
       /\ toast' = toast
       /\ contractForInvoices' = contractForInvoices
       /\ contractForParse' = contractForParse
       /\ invoiceForParse' = invoiceForParse]_vars

C26_Witness ==
  /\ component = "ProjectDetailDialog"
  /\ lastConfirm = [target |-> "c1", answer |-> FALSE]
  /\ contractForParse = Entity("c1")
  /\ contractForInvoices = Entity("c1")
  /\ mutations = {} /\ mutationId = 0
  /\ toast = None /\ stale = {}

\* Every step of AddContract and AddInvoice that closes the dialog resets the
\* form, clears the file and bumps fileInputKey by one, and every step that
\* opens it finds the default values and no file.
closingResets ==
  component \in {"AddContract", "AddInvoice"} =>
    /\ (isOpen /\ ~isOpen') =>
         /\ form' = defaultValues(component)
         /\ file' = Null
         /\ fileInputKey' = fileInputKey + 1
    /\ (~isOpen /\ isOpen') =>
         /\ form' = defaultValues(component)
         /\ file' = Null

\* C27: in AddInvoice and AddContract, whenever the dialog is closed the
\* selected file is null and the form holds its default values; every step
\* that closes the dialog (the user closing it, or a create succeeding)
\* resets the form, clears the file and bumps fileInputKey by one, so a
\* dialog opened again starts without a file and with the default values.
C27_ClosedDialogIsClean ==
  /\ [](component \in {"AddContract", "AddInvoice"} /\ ~isOpen
          => file = Null /\ form = defaultValues(component))
  /\ [][closingResets]_vars

C27_Witness ==
  /\ component = "AddInvoice"
  /\ ~isOpen
  /\ fileInputKey = 2
  /\ toast = showSuccessToast(Toast_invoiceCreated)
  /\ file = Null
  /\ form = defaultValues("AddInvoice")
  /\ mutations = {}

\* The mutation functions of the model.
MutationFns ==
  {"createContractProject", "createContract", "createInvoice", "deleteContract",
   "deleteInvoice"}

\* Mutation id, of function fn, is in flight.
inFlight(id, fn) == \E m \in mutations : m.id = id /\ m.fn = fn

\* What the step that settles a mutation does: the list query of the parent
\* scope is invalidated whether the request succeeded or failed; a failed
\* create shows the error toast and leaves the dialog, its form values, its
\* file and its file input as they were; a successful create closes the
\* dialog.
settling ==
  \A m \in mutations :
    /\ m \notin mutations' => queryKeyOf(m.fn) \in stale'
    /\ onError(m) =>
         /\ toast' = showErrorToast /\ toast'.type = "error"
         /\ isOpen' = isOpen /\ form' = form /\ file' = file
         /\ fileInputKey' = fileInputKey
    /\ (onSuccess(m) /\ isCreate(m.fn)) =>
         ~isOpen' /\ toast' = showSuccessToast(successToast(m.fn))

\* C28: every create or delete mutation that is started is eventually
\* settled, and the step that settles it invalidates the list query of its
\* parent scope (["contract-projects"], ["contracts", projectId] or
\* ["invoices", contractId]) on success and on failure alike; on failure the
\* create dialog stays as it is (open, same form values, same file) with
\* only the error toast shown, and on success it is closed.
C28_SettledInvalidates ==
  /\ [][settling]_vars
  /\ \A id \in 1..MaxMutations, fn \in MutationFns :
       inFlight(id, fn) ~> (~inFlight(id, fn) /\ queryKeyOf(fn) \in stale)

C28_Witness ==
  /\ component = "AddContract"
  /\ isOpen
  /\ toast = showErrorToast
  /\ stale = {<<"contracts", projectId>>}
  /\ mutations = {} /\ mutationId = 1
  /\ file = File("a.pdf")
  /\ form \in typedValues("AddContract")

\* The success of create mutation m arrives in a later session of the add
\* dialog than the one that submitted it: the dialog was closed since (which
\* bumped fileInputKey), is open again and holds a file or typed values.
lateSuccess(m) ==
  /\ onSuccess(m)
  /\ isCreate(m.fn)
  /\ m.session # fileInputKey
  /\ isOpen
  /\ file # Null \/ form # defaultValues(component)

\* C29: in AddInvoice and AddContract the completion of an earlier
\* submission never discards the input of a later session: when the dialog
\* was closed while a create request was pending, was opened again and holds
\* a newly selected file or newly typed values, the step in which the
\* earlier request succeeds leaves the file, the form values and the open
\* dialog as they are.
C29_LateSuccessKeepsInput ==
  [][\A m \in mutations :
       lateSuccess(m) => (isOpen' /\ form' = form /\ file' = file)]_vars

====
